---- MODULE Spec2Model ----
(***************************************************************************)
(* Model of x-dl: the VideoExtractor (extract, selectBestVideoUrl and its  *)
(* helpers) and the URL / access-wall utilities it calls.                  *)
(*                                                                         *)
(* Strings are modelled as sequences of tokens: a media URL is a sequence  *)
(* of path tokens, rendered HTML is a sequence of words, a tweet URL is a  *)
(* record of scheme, host, port and path segments (sequences of            *)
(* characters).  String.includes is a scan of the sequence, toLowerCase a  *)
(* map over it, split('#')[0] the prefix before the first '#' token.       *)
(***************************************************************************)
EXTENDS Integers, Sequences, FiniteSets, TLC

VARIABLES
    media,         \* which media the tweet page requests from the CDN
    cands,         \* extract's `candidates` Set<string>, in insertion order
    contentLength, \* HEAD answer per fragment-stripped url seen so far
    selected,      \* value returned by selectBestVideoUrl (PendingVideo before the call)
    selCall,       \* what the selectBestVideoUrl call read: timeline and DOM urls, re-probed size
    pc,            \* where extract stands
    input,         \* the url passed to extract
    profileDir,    \* whether options.profileDir was given
    debugDir,      \* whether options.debugArtifactsDir was given
    pageHtml,      \* `pageHtml` of extract (<<>> before page.content() returned)
    launched,      \* browser objects that exist: subset of {"browser", "context", "page"}
    held,          \* which of extract's locals browser, context, page are non-null
    closeCalls,    \* number of close() calls made on the context and on the browser
    elapsed,       \* Date.now() - start in waitForNetworkCandidates
    clicks,        \* successful clicks made by tryTriggerPlayback
    swallowed,     \* the best-effort steps whose exception was caught and dropped
    faults,        \* steps that threw or rejected
    phases,        \* the steps extract has entered, in order
    result,        \* the ExtractResult returned
    outputFile,    \* size of the file at outputPath (NoNumber: no file there)
    preexisting,   \* the file that was at outputPath before the call: "none", "there", "deleted"
    timeout,       \* options.timeout of downloadHlsWithFfmpeg (NoNumber: not given)
    ffmpeg,        \* the subprocess: "none", "failed", "running", "killed", "exited"
    promise,       \* the promise downloadHlsWithFfmpeg returns
    clock,         \* Date.now() since the call, in ms
    lastFileSize,  \* `lastFileSize`
    lastProgressTime, \* `lastProgressTime`, in ms since the call
    rejected,      \* `rejected`
    timers,        \* armed timers: subset of {"poll", "timeout"}
    polled,        \* the interval callback has run for the current clock value
    kills,         \* number of ffmpeg.kill('SIGKILL') calls
    idleMs,        \* time since the subprocess last added bytes to the file (capped)
    wallHtml,      \* the text hasLoginWall is called with
    fmtUrl,        \* the url getVideoFormat is called with
    fmt,           \* what getVideoFormat returned for fmtUrl (Undefined before the call)
    cliPc,         \* where main of the CLI stands
    cliArgs,       \* the parsed arguments: whether --profile and --url-only were given
    cliResult,     \* what extract returned to main: "error" or the format of videoUrl
    cliMessage,    \* `message` of the catch block around downloadVideo (<<>>: nothing caught)
    authCalls,     \* number of calls of extractor.downloadAuthenticated
    exitCode,      \* the exit code of the process (NoNumber while it runs)
    instPc,        \* the function of the install script that runs next
    BINARY,        \* the release asset chosen by detect_platform
    CHECKSUMS,     \* the lines of checksums.txt (<<>>: the empty string)
    EXPECTED_SHA,  \* the lines printed by the grep | awk pipeline
    ACTUAL_SHA,    \* the digest shasum prints for the file ("": not computed)
    xdl,           \* the digest of the file at ~/.local/bin/x-dl, or "nothing"
    ran,           \* the functions main has called, in order
    instExit,      \* the exit code of the install script (NoNumber while it runs)
    dlPc,          \* where downloadVideo stands
    onProgress,    \* whether options.onProgress was supplied
    total,         \* `total` of downloadVideo
    downloaded,    \* `downloaded`: the bytes read from the body so far
    lastProgressUpdate, \* `lastProgressUpdate`
    dlNow,         \* Date.now()
    updates,       \* the calls of onProgress: <<downloaded, total>> each
    destination,   \* the bytes written to outputPath (NoNumber: nothing written)
    detail,        \* the message of the Error the promise was rejected with, or the path
    wall           \* what hasLoginWall returned for wallHtml: "true", "false" (Undefined before the call)

selVars == <<media, cands, contentLength, selected, selCall>>
runVars == <<pc, input, profileDir, debugDir, pageHtml, launched, held, closeCalls,
             elapsed, clicks, swallowed, faults, phases, result>>
ffVars == <<outputFile, preexisting, timeout, ffmpeg, promise, clock, lastFileSize,
            lastProgressTime, rejected, timers, polled, kills, idleMs, detail>>
wallVars == <<wallHtml, wall>>
fmtVars == <<fmtUrl, fmt>>
cliVars == <<cliPc, cliArgs, cliResult, cliMessage, authCalls, exitCode>>
instVars == <<instPc, BINARY, CHECKSUMS, EXPECTED_SHA, ACTUAL_SHA, xdl, ran, instExit>>
dlVars == <<dlPc, onProgress, total, downloaded, lastProgressUpdate, dlNow, updates,
           destination>>
auxVars == <<ffVars, wallVars, fmtVars, cliVars, instVars, dlVars>>
notFf == <<selVars, runVars, wallVars, fmtVars, cliVars, instVars, dlVars>>
notWall == <<selVars, runVars, ffVars, fmtVars, cliVars, instVars, dlVars>>
notFmt == <<selVars, runVars, ffVars, wallVars, cliVars, instVars, dlVars>>
notCli == <<selVars, runVars, ffVars, wallVars, fmtVars, instVars, dlVars>>
notInst == <<selVars, runVars, ffVars, wallVars, fmtVars, cliVars, dlVars>>
notDl == <<selVars, runVars, ffVars, wallVars, fmtVars, cliVars, instVars>>
vars == <<media, cands, contentLength, selected, selCall, pc, input, profileDir, debugDir,
          pageHtml, launched, held, closeCalls, elapsed, clicks, swallowed, faults, phases, result,
          auxVars>>

----------------------------------------------------------------------------
(* Bounds *)

MaxCands == 3      \* most response urls collected in one selector run

----------------------------------------------------------------------------
(* Values *)

Undefined == "undefined"    \* JS undefined
NoNumber == -1              \* an absent optional number (width, height, size)

\* VideoUrl | null, and the value of `videoUrl` before selectBestVideoUrl returns
NullVideo == [url |-> <<>>, format |-> "null", bitrate |-> NoNumber,
              width |-> NoNumber, height |-> NoNumber]
PendingVideo == [url |-> <<>>, format |-> "pending", bitrate |-> NoNumber,
                 width |-> NoNumber, height |-> NoNumber]

Range(s) == {s[i] : i \in 1..Len(s)}

\* the sequence f as an explicit tuple
Tuple(f) == f \o <<>>

----------------------------------------------------------------------------
(* Media URLs as token sequences *)

\* String.prototype.toLowerCase on one token
LowerTok(t) ==
    CASE t = ".MP4" -> ".mp4"
      [] t = ".M3U8" -> ".m3u8"
      [] t = ".GIF" -> ".gif"
      [] t = ".WEBM" -> ".webm"
      [] t = ".M4S" -> ".m4s"
      [] t = ".M4A" -> ".m4a"
      [] t = ".TS" -> ".ts"
      [] t = ".MOV" -> ".mov"
      [] OTHER -> t

ToLowerCase(u) == Tuple([i \in 1..Len(u) |-> LowerTok(u[i])])

\* the needles of the source that occur inside one token
SubstringsOf(t) ==
    CASE t = "https://video.twimg.com/" -> {"video.twimg.com"}
      [] t = "https://video.twimg.com/tweet_video/" ->
             {"video.twimg.com", "twimg.com/tweet_video"}
      [] t = "/mp4a/" -> {"/mp4a/", "mp4a"}
      [] t = "?variant_version=1" -> {"variant_version"}
      [] OTHER -> {t}

\* String.prototype.includes
Includes(u, needle) == \E i \in 1..Len(u) : needle \in SubstringsOf(u[i])

\* url.split('#')[0]
StripFragment(u) ==
    IF \E i \in 1..Len(u) : u[i] = "#"
    THEN SubSeq(u, 1, (CHOOSE i \in 1..Len(u) : u[i] = "#" /\ \A j \in 1..(i - 1) : u[j] # "#") - 1)
    ELSE u

\* the tokens of the form /(\d+)x(\d+)/ and the two numbers parseInt reads from them
ResolutionMarkers ==
    [t \in {"/720x1280/", "/360x640/", "/1920x1080/", "/50000x41000/",
             "/410x700/", "/420x700/", "/430x700/", "/440x700/", "/450x700/",
             "/460x700/", "/470x700/"} |->
        CASE t = "/720x1280/" -> <<720, 1280>>
          [] t = "/360x640/" -> <<360, 640>>
          [] t = "/1920x1080/" -> <<1920, 1080>>
          [] t = "/50000x41000/" -> <<50000, 41000>>
          [] t = "/410x700/" -> <<410, 700>>
          [] t = "/420x700/" -> <<420, 700>>
          [] t = "/430x700/" -> <<430, 700>>
          [] t = "/440x700/" -> <<440, 700>>
          [] t = "/450x700/" -> <<450, 700>>
          [] t = "/460x700/" -> <<460, 700>>
          [] t = "/470x700/" -> <<470, 700>>]

\* cleanUrl.match(/\/(\d+)x(\d+)\//): the first resolution marker, <<>> if none
MatchResolution(u) ==
    LET hits == {i \in 1..Len(u) : u[i] \in DOMAIN ResolutionMarkers} IN
    IF hits = {} THEN <<>>
    ELSE ResolutionMarkers[u[CHOOSE i \in hits : \A j \in hits : i <= j]]

getVideoFormat(url) ==
    LET lowerUrl == ToLowerCase(url) IN
    IF Includes(lowerUrl, ".mp4") THEN "mp4"
    ELSE IF Includes(lowerUrl, ".m3u8") THEN "m3u8"
    ELSE IF Includes(lowerUrl, ".gif") \/ Includes(lowerUrl, "twimg.com/tweet_video") THEN "gif"
    ELSE "unknown"

extractBitrate(url) ==
    LET match == MatchResolution(url) IN
    IF match # <<>> THEN match[1] * match[2] ELSE NoNumber

ProgressiveBonus == 1000000000
MasterBonus == 2000000000

toCandidate(url) ==
    LET format == getVideoFormat(url)
        cleanUrl == StripFragment(url)
        audioOnly == Includes(cleanUrl, "/aud/") \/ Includes(cleanUrl, "/mp4a/")
                        \/ Includes(cleanUrl, "mp4a")
        match == MatchResolution(cleanUrl)
        width == IF match # <<>> THEN match[1] ELSE NoNumber
        height == IF match # <<>> THEN match[2] ELSE NoNumber
        s0 == IF match # <<>> THEN width * height ELSE 0
        s1 == IF format \in {"mp4", "webm"} /\ ~audioOnly THEN s0 + ProgressiveBonus ELSE s0
        s2 == IF format = "m3u8" /\ ~audioOnly /\ Includes(cleanUrl, "variant_version")
                 THEN s1 + MasterBonus ELSE s1
    IN [url |-> cleanUrl, format |-> format, width |-> width, height |-> height,
        score |-> s2, audioOnly |-> audioOnly]

----------------------------------------------------------------------------
(* Ordering and probing *)

\* Array.prototype.sort is stable.  KeyBefore(K[a], K[b]) is
\* "comparator(a, b) < 0" for a descending order on key pairs; an element
\* lands after every element that sorts before it and after the earlier
\* elements that compare equal to it.
KeyBefore(k1, k2) == k1[1] > k2[1] \/ (k1[1] = k2[1] /\ k1[2] > k2[2])

StableSortDesc(s, K) ==
    LET n == Len(s)
        pos == Tuple([i \in 1..n |->
                  1 + Cardinality({j \in 1..n : KeyBefore(K[j], K[i])})
                    + Cardinality({j \in 1..(i - 1) : K[j] = K[i]})])
    IN Tuple([p \in 1..n |-> s[CHOOSE i \in 1..n : pos[i] = p]])

\* .sort((a, b) => (b.score || 0) - (a.score || 0))
SortByScore(s) ==
    StableSortDesc(s, Tuple([i \in 1..Len(s) |-> <<0, s[i].score>>]))

ScoreOnly(s) == SortByScore(s)

\* .sort by '/pu/vid/' first, then score
SortByProgressiveBoost(s) ==
    StableSortDesc(s,
        Tuple([i \in 1..Len(s) |->
                 <<IF Includes(s[i].url, "/pu/vid/") THEN 1 ELSE 0, s[i].score>>]))

SizeFloor == 100 * 1024
ProbeLimit == 6

\* getContentLength: the HEAD answer for a url, undefined (NoNumber) when the
\* request fails, is not ok, or carries no parseable content-length
getContentLength(probe, url) ==
    IF url \in DOMAIN probe THEN probe[url] ELSE NoNumber

\* what a HEAD request can come to: the fetch rejects or is aborted, the
\* status is not ok, the content-length header is missing, parseInt gives
\* NaN for it, or parseInt gives the number len
HeadKinds == {"rejects", "not ok", "no header", "not a number", "number"}

\* lines 515-524 of getContentLength: the value returned for one HEAD answer
ParseHead(head) == IF head.kind = "number" THEN head.len ELSE NoNumber

UnknownAsZero(size) == TRUE

\* JS truthiness of `number | undefined`
Truthy(size) == size # NoNumber /\ size # 0

LargerOrEqualBest(size, bestSize) == size >= bestSize

\* `size > bestSize` of the probe loop
LargerThanBest(size, bestSize) == size > bestSize

AtOrBelowFloor(size) == Truthy(size) /\ size <= SizeFloor

\* `size && size < 100 * 1024` of selectBestVideoUrl
SuspiciouslySmall(size) == Truthy(size) /\ size < SizeFloor

RECURSIVE ProbeLoop(_, _, _, _, _)
ProbeLoop(list, i, best, bestSize, probe) ==
    IF i > Len(list) \/ i > ProbeLimit THEN best
    ELSE LET size == getContentLength(probe, list[i].url) IN
         IF ~Truthy(size) THEN ProbeLoop(list, i + 1, best, bestSize, probe)
         ELSE IF size < SizeFloor THEN ProbeLoop(list, i + 1, best, bestSize, probe)
         ELSE IF LargerThanBest(size, bestSize) THEN ProbeLoop(list, i + 1, list[i], size, probe)
         ELSE ProbeLoop(list, i + 1, best, bestSize, probe)

pickBestProgressiveCandidate(candidates, probe) ==
    LET sorted == SortByScore(candidates)
        withProgressiveBoost == SortByProgressiveBoost(sorted)
    IN ProbeLoop(withProgressiveBoost, 1, withProgressiveBoost[1], 0, probe)

----------------------------------------------------------------------------
(* selectBestVideoUrl *)

\* [...new Set(allUrls)]: first occurrence of each raw url, in order
Unique(s) ==
    LET keep == {i \in 1..Len(s) : \A j \in 1..(i - 1) : s[j] # s[i]}
    IN Tuple([p \in 1..Cardinality(keep) |->
                s[CHOOSE i \in keep : Cardinality({j \in keep : j < i}) = p - 1]])

Keep(s, Test(_)) == SelectSeq(s, Test)

IsM3U8(c) == c.format = "m3u8"

InProgressivePool(c) ==
    IF c.audioOnly THEN FALSE
    ELSE IF c.format \in {"m4s", "m4a", "ts"} THEN FALSE
    ELSE IF c.format \in {"mp4", "webm"} THEN TRUE
    ELSE c.format # "m3u8"

IsMp4(c) == c.format = "mp4"

ParsedOf(networkCandidates, perfCandidates, domCandidates) ==
    LET allUrls == networkCandidates \o perfCandidates \o domCandidates
        unique == Unique(allUrls)
    IN Tuple([i \in 1..Len(unique) |-> toCandidate(unique[i])])

M3U8sUnsorted(parsed) == Keep(parsed, IsM3U8)

\* the m3u8 candidates, sorted by score
M3U8sOf(parsed) == SortByScore(Keep(parsed, IsM3U8))

ProgressiveOf(parsed) == Keep(parsed, InProgressivePool)

PlaylistResult(c) ==
    [url |-> c.url, format |-> "m3u8", bitrate |-> NoNumber,
     width |-> NoNumber, height |-> NoNumber]

\* The run of selectBestVideoUrl: `video` is the value returned, `size` the
\* second HEAD answer read for the chosen progressive url (NoNumber when none
\* was read).  reprobeFails: that second request fails although the first one
\* was answered.
SelectionRun(networkCandidates, perfCandidates, domCandidates, probe, reprobeFails) ==
    LET parsed == ParsedOf(networkCandidates, perfCandidates, domCandidates)
        m3u8s == M3U8sOf(parsed)
        progressiveVideos == ProgressiveOf(parsed)
        audioOnly == Keep(parsed, IsMp4)
    IN IF Len(progressiveVideos) > 0
       THEN LET best == pickBestProgressiveCandidate(progressiveVideos, probe)
                size == IF reprobeFails THEN NoNumber
                        ELSE getContentLength(probe, best.url)
            IN IF SuspiciouslySmall(size) /\ Len(m3u8s) > 0
               THEN [video |-> PlaylistResult(m3u8s[1]), size |-> size]
               ELSE [video |-> [url |-> best.url, format |-> best.format,
                                bitrate |-> extractBitrate(best.url),
                                width |-> best.width, height |-> best.height],
                     size |-> size]
       ELSE IF Len(m3u8s) > 0
            THEN [video |-> PlaylistResult(m3u8s[1]), size |-> NoNumber]
       ELSE IF Len(audioOnly) > 0
            THEN [video |-> [url |-> audioOnly[1].url, format |-> audioOnly[1].format,
                             bitrate |-> NoNumber, width |-> NoNumber, height |-> NoNumber],
                  size |-> NoNumber]
       ELSE [video |-> NullVideo, size |-> NoNumber]

selectBestVideoUrl(networkCandidates, perfCandidates, domCandidates, probe, reprobeFails) ==
    SelectionRun(networkCandidates, perfCandidates, domCandidates, probe, reprobeFails).video

----------------------------------------------------------------------------
(* Tweet urls: scheme, host, port (0 when absent) and '/'-separated path      *)
(* segments, each a sequence of characters                                    *)

Digits == {"0", "1", "2", "3", "4", "5", "6", "7", "8", "9"}
Letters == {"a", "b", "c", "e", "r", "s", "t", "u", "A", "S", "T", "U"}
WordChars == Digits \cup Letters \cup {"_"}

LowerChar(c) ==
    CASE c = "A" -> "a" [] c = "S" -> "s" [] c = "T" -> "t" [] c = "U" -> "u" [] OTHER -> c

LowerSeg(seg) == Tuple([i \in 1..Len(seg) |-> LowerChar(seg[i])])

StatusSeg == <<"s", "t", "a", "t", "u", "s">>

\* /^https?:\/\/(www\.)?twitter\.com\/[\w]+\/status\/[\d]+/i and its two siblings
isValidTwitterUrl(url) ==
    /\ url.scheme \in {"http", "https"}
    /\ \/ url.host \in {"twitter.com", "www.twitter.com", "x.com", "www.x.com"} /\ url.port = 0
       \/ url.host \in {"localhost", "127.0.0.1"}
    /\ Len(url.path) >= 3
    /\ url.path[1] # <<>> /\ \A i \in 1..Len(url.path[1]) : url.path[1][i] \in WordChars
    /\ LowerSeg(url.path[2]) = StatusSeg
    /\ url.path[3] # <<>> /\ url.path[3][1] \in Digits

\* new URL(url) throws a TypeError when the port does not fit 16 bits
UrlConstructorThrows(url) == url.port > 65535

\* pathParts.indexOf('status'), as a JS index (-1 when absent)
IndexOfStatus(pathParts) ==
    LET hits == {i \in 1..Len(pathParts) : pathParts[i] = StatusSeg} IN
    IF hits = {} THEN -1 ELSE (CHOOSE i \in hits : \A j \in hits : i <= j) - 1

\* "throws", "null" or "info"
parseTweetUrl(url) ==
    IF ~isValidTwitterUrl(url) THEN "null"
    ELSE IF UrlConstructorThrows(url) THEN "throws"
    ELSE LET pathParts == <<<<>>>> \o url.path
             statusIndex == IndexOfStatus(pathParts)
             authorIndex == statusIndex - 1
         IN IF authorIndex < 0 \/ statusIndex < 0 THEN "null"
            ELSE LET author == pathParts[authorIndex + 1]
                     id == IF statusIndex + 2 <= Len(pathParts)
                           THEN pathParts[statusIndex + 2] ELSE <<>>
                 IN IF author = <<>> \/ id = <<>> \/ \E i \in 1..Len(id) : id[i] \notin Digits
                    THEN "null" ELSE "info"

SegUser == <<"u", "s", "e", "r">>
SegId == <<"1", "2", "3">>
SegIdJunk == <<"1", "2", "3", "a", "b", "c">>
SegLetters == <<"a", "b", "c">>
SegStatusUpper == <<"S", "T", "A", "T", "U", "S">>

TweetUrl(scheme, host, port, path) ==
    [scheme |-> scheme, host |-> host, port |-> port, path |-> path]

TUPublic == TweetUrl("https", "x.com", 0, <<SegUser, StatusSeg, SegId>>)
TULocal == TweetUrl("http", "localhost", 3000, <<SegUser, StatusSeg, SegId, SegLetters>>)
TUNotAUrl == TweetUrl("", "not-a-valid-url", 0, <<>>)
TUOtherHost == TweetUrl("https", "google.com", 0, <<SegUser, StatusSeg, SegId>>)
TUNoId == TweetUrl("https", "twitter.com", 0, <<SegUser, StatusSeg, SegLetters>>)
TUPortOnX == TweetUrl("https", "x.com", 8080, <<SegUser, StatusSeg, SegId>>)
TUIdJunk == TweetUrl("https", "x.com", 0, <<SegUser, StatusSeg, SegIdJunk>>)
TUStatusTwice == TweetUrl("https", "www.x.com", 0, <<StatusSeg, StatusSeg, SegId>>)
TUStatusUpper == TweetUrl("https", "twitter.com", 0, <<SegUser, SegStatusUpper, SegId>>)
TUBigPort == TweetUrl("http", "localhost", 99999, <<SegUser, StatusSeg, SegId>>)

TweetUrls == {TUPublic, TULocal, TUNotAUrl, TUOtherHost, TUNoId, TUPortOnX,
              TUIdJunk, TUStatusTwice, TUStatusUpper, TUBigPort}

----------------------------------------------------------------------------
(* Rendered HTML as a sequence of words *)

LowerWord(w) ==
    CASE w = "Log" -> "log" [] w = "Sign" -> "sign" [] w = "This" -> "this"
      [] w = "These" -> "these" [] w = "PROTECTED" -> "protected"
      [] w = "LOG" -> "log" [] w = "SIGN" -> "sign"
      [] w = "In" -> "in" [] w = "IN" -> "in" [] OTHER -> w

LowerHtml(html) == Tuple([i \in 1..Len(html) |-> LowerWord(html[i])])

\* String.prototype.includes for a phrase of whole words
IncludesPhrase(text, phrase) ==
    \E i \in 1..(Len(text) - Len(phrase) + 1) :
        \A j \in 1..Len(phrase) : text[i + j - 1] = phrase[j]

privateIndicators ==
    {<<"this", "tweet", "is", "from", "an", "account", "that", "is">>,
     <<"protected", "tweets">>,
     <<"you", "are", "not", "authorized", "to", "view">>,
     <<"these", "tweets", "are", "protected">>,
     <<"only", "followers", "can", "see">>,
     <<"this", "tweet", "is", "protected">>}

isPrivateTweet(html) ==
    LET lowerHtml == LowerHtml(html) IN
    \E indicator \in privateIndicators : IncludesPhrase(lowerHtml, LowerHtml(indicator))

loginIndicators ==
    {<<"log", "in">>, <<"sign", "up">>, <<"join", "the", "conversation">>,
     <<"sign", "in", "to", "view">>}

hasLoginWall(html) ==
    LET lowerHtml == LowerHtml(html)
        hasLogin == \E indicator \in loginIndicators :
                        IncludesPhrase(lowerHtml, LowerHtml(indicator))
        hasAuthRequired == IncludesPhrase(html, <<"Sign", "in">>)
                              \/ IncludesPhrase(html, <<"Log", "in">>)
    IN hasLogin /\ hasAuthRequired

HtmlNoVideo == <<"This", "tweet", "has", "no", "video">>
HtmlLoginWall == <<"Log", "in", "to", "follow", "this", "account", "Sign", "in">>
HtmlProtected == <<"This", "tweet", "is", "from", "an", "account", "that", "is", "protected">>
HtmlProtectedLogin == <<"PROTECTED", "tweets", "Log", "in">>
HtmlSignUp == <<"sign", "up", "to", "see", "more">>

Htmls == {HtmlNoVideo, HtmlLoginWall, HtmlProtected, HtmlProtectedLogin, HtmlSignUp}

----------------------------------------------------------------------------
(* ExtractResult *)

NoDebug == [defined |-> FALSE, htmlPath |-> FALSE, screenshotPath |-> FALSE]

NoResult == [videoUrl |-> PendingVideo, error |-> Undefined,
             errorClassification |-> Undefined, debugInfo |-> NoDebug]

NoCloseCalls == [context |-> 0, browser |-> 0]

FailureUnlessSaved(message, classification, debugInfo) ==
    [videoUrl |-> NullVideo,
     error |-> IF debugInfo.defined THEN message ELSE "Failed to save debug artifacts",
     errorClassification |-> IF debugInfo.defined THEN classification ELSE "unknown",
     debugInfo |-> debugInfo]

\* the object literal of every failing return of extract
Failure(message, classification, debugInfo) ==
    [videoUrl |-> NullVideo, error |-> message,
     errorClassification |-> classification, debugInfo |-> debugInfo]

SuccessKeepingClassification(videoUrl) ==
    [videoUrl |-> videoUrl, error |-> Undefined,
     errorClassification |-> "unknown", debugInfo |-> NoDebug]

\* the object literal of the successful return of extract
Success(videoUrl) ==
    [videoUrl |-> videoUrl, error |-> Undefined,
     errorClassification |-> Undefined, debugInfo |-> NoDebug]

MsgInvalidUrl == "Invalid X/Twitter URL. Please provide a valid tweet URL."
MsgParseError == "Failed to parse tweet URL."
MsgProtected == "This tweet is private or protected. Only public tweets can be extracted."
MsgLoginWall == "No video URL found. This tweet likely requires authentication. Run: x-dl --login --profile ~/.x-dl-profile"
MsgNoVideo == "Failed to extract video URL."
MsgThrown == "error.message"

----------------------------------------------------------------------------
(* The parts of the program that are not running *)

\* downloadHlsWithFfmpeg has not been called
FfIdle ==
    /\ outputFile = NoNumber
    /\ preexisting = "none"
    /\ timeout = NoNumber
    /\ ffmpeg = "none"
    /\ promise = "idle"
    /\ clock = 0
    /\ lastFileSize = 0
    /\ lastProgressTime = 0
    /\ rejected = FALSE
    /\ timers = {}
    /\ polled = TRUE
    /\ kills = 0
    /\ idleMs = 0
    /\ detail = <<>>

\* hasLoginWall is not being exercised
WallIdle ==
    /\ wallHtml = <<>>
    /\ wall = Undefined

\* getVideoFormat is not being exercised on its own
FmtIdle ==
    /\ fmtUrl = <<>>
    /\ fmt = Undefined

\* the CLI's main is not running
CliIdle ==
    /\ cliPc = "idle"
    /\ cliArgs = [profile |-> FALSE, urlOnly |-> FALSE]
    /\ cliResult = Undefined
    /\ cliMessage = <<>>
    /\ authCalls = 0
    /\ exitCode = NoNumber

\* the install script is not running
InstIdle ==
    /\ instPc = "idle"
    /\ BINARY = ""
    /\ CHECKSUMS = <<>>
    /\ EXPECTED_SHA = <<>>
    /\ ACTUAL_SHA = ""
    /\ xdl = "nothing"
    /\ ran = <<>>
    /\ instExit = NoNumber

\* downloadVideo is not running
DlIdle ==
    /\ dlPc = "idle"
    /\ onProgress = FALSE
    /\ total = 0
    /\ downloaded = 0
    /\ lastProgressUpdate = 0
    /\ dlNow = 0
    /\ updates = <<>>
    /\ destination = NoNumber

AuxIdle == FfIdle /\ WallIdle /\ FmtIdle /\ CliIdle /\ InstIdle /\ DlIdle

----------------------------------------------------------------------------
(* Media urls and content-lengths the selector is exercised on *)

Host == "https://video.twimg.com/"
Ext == "ext_tw_video/111111"

UMp4Hi == <<Host, Ext, "/pu/vid/", "/720x1280/", "best", ".mp4">>
UMp4Lo == <<Host, Ext, "/pu/vid/", "/360x640/", "low", ".mp4">>
UMp4Amp == <<Host, "amplify_video/2", "/vid/", "/1920x1080/", "amp", ".MP4">>
UMp4HiFrag == UMp4Hi \o <<"#", "t=10">>
UPlVariant == <<Host, Ext, "/pl/", "/720x1280/", "v", ".m3u8">>
UPlMaster == <<Host, Ext, "/pl/", "m", ".m3u8", "?variant_version=1">>
UPlAudio == <<Host, Ext, "/pl/", "/mp4a/", "a", ".m3u8", "?variant_version=1">>
UAudMp4 == <<Host, Ext, "/aud/", "a", ".mp4">>
UAudSeg == <<Host, Ext, "/aud/", "s", ".m4s">>
UVidSeg == <<Host, Ext, "/vid/", "/720x1280/", "seg", ".m4s">>
UGif == <<"https://video.twimg.com/tweet_video/", "g", ".gif">>
UPlHuge == <<Host, Ext, "/pl/", "/50000x41000/", "x", ".m3u8">>
UThumb == <<"https://pbs.twimg.com/", "thumb", ".jpg">>

\* further progressive files, each ranked above UMp4Lo
RungMarkers == <<"/410x700/", "/420x700/", "/430x700/", "/440x700/", "/450x700/",
                 "/460x700/", "/470x700/">>
Rung(n) == <<Host, Ext, "/pu/vid/", RungMarkers[n], "r", ".mp4">>

\* the urls a tweet page of each kind requests
UrlsOf(m) ==
    CASE m = "progressive" -> {UMp4Hi, UMp4Lo, UMp4Amp, UMp4HiFrag, UPlVariant, UPlMaster, UThumb}
      [] m = "playlists" -> {UPlVariant, UPlMaster, UPlAudio, UPlHuge, UAudMp4, UGif, UVidSeg,
                             UThumb}
      [] m = "video" -> {UMp4Lo, UPlMaster, UAudSeg}
      [] OTHER -> {}

AllUrls == UrlsOf("progressive") \cup UrlsOf("playlists")

Sizes == {NoNumber, 0, SizeFloor - 1, SizeFloor, SizeFloor + 1, 4 * SizeFloor}

\* the content-lengths the CDN may answer when the page requests url u; a
\* HEAD request is only ever sent for a member of the progressive pool
ServedSizes(m, u) ==
    IF u \notin UrlsOf(m) THEN {}
    ELSE IF ~InProgressivePool(toCandidate(u)) THEN {NoNumber}
    ELSE CASE StripFragment(u) = UMp4Hi -> Sizes
           [] u = UMp4Lo -> {SizeFloor - 1, SizeFloor + 1, 4 * SizeFloor}
           [] u = UMp4Amp -> {NoNumber, SizeFloor + 1}
           [] OTHER -> {NoNumber, 4 * SizeFloor}

\* the HEAD answers that come to the content-length `size`
HeadsFor(size) ==
    IF size = NoNumber
    THEN {[kind |-> k, len |-> NoNumber] : k \in HeadKinds \ {"number"}}
    ELSE {[kind |-> "number", len |-> size]}

HeadsOf(m, u) == UNION {HeadsFor(size) : size \in ServedSizes(m, u)}

Crowd == <<UPlVariant, UMp4Lo>> \o [n \in 1..ProbeLimit |-> Rung(n)]

----------------------------------------------------------------------------
(* The selector on its own: responses accumulate, then one selection *)

\* the steps of extract during which the response listener is attached and
\* the snapshot for selectBestVideoUrl has not been taken
ListeningAt == {"goto", "settle", "content", "protected", "playback", "wait", "select"}

\* page.on('response', ...): the listener of extract.  The CDN answers a
\* HEAD request for the same file with the same content-length.
Response(u, head) ==
    /\ pc \in ListeningAt
    /\ selected = PendingVideo
    /\ Len(cands) < MaxCands
    /\ u \notin Range(cands)
    /\ Includes(u, "video.twimg.com")
    /\ head \in HeadsOf(media, u)
    /\ LET clean == StripFragment(u)
           size == ParseHead(head)
       IN
       IF clean \in DOMAIN contentLength
       THEN size = contentLength[clean] /\ UNCHANGED contentLength
       ELSE contentLength' = [x \in DOMAIN contentLength \cup {clean} |->
                                 IF x = clean THEN size ELSE contentLength[x]]
    /\ cands' = Append(cands, u)
    /\ UNCHANGED <<media, selected, selCall>>
    /\ UNCHANGED runVars
    /\ UNCHANGED auxVars

Select(perf, dom, reprobeFails) ==
    /\ pc = "select"
    /\ selected = PendingVideo
    /\ LET run == SelectionRun(cands, perf, dom, contentLength, reprobeFails) IN
          /\ selected' = run.video
          /\ selCall' = [side |-> Unique(perf \o dom), reprobe |-> run.size]
    /\ UNCHANGED <<media, cands, contentLength>>
    /\ UNCHANGED runVars
    /\ UNCHANGED auxVars

SideChannel == {<<>>, <<UMp4HiFrag>>}

NoCall == [side |-> <<>>, reprobe |-> NoNumber]

\* the rest of extract is left out: it stands right before selectBestVideoUrl
SelectorOnly ==
    /\ pc = "select"
    /\ input = TUPublic
    /\ profileDir = FALSE
    /\ debugDir = FALSE
    /\ pageHtml = <<>>
    /\ launched = {}
    /\ held = {}
    /\ closeCalls = NoCloseCalls
    /\ elapsed = 0
    /\ clicks = 0
    /\ swallowed = {}
    /\ faults = {}
    /\ phases = <<>>
    /\ result = NoResult
    /\ AuxIdle

SelInitEmpty ==
    /\ media \in {"progressive", "playlists"}
    /\ cands = <<>>
    /\ contentLength = <<>>
    /\ selected = PendingVideo
    /\ selCall = NoCall
    /\ SelectorOnly

SelInitCrowd ==
    /\ media = "crowd"
    /\ cands = Crowd
    /\ contentLength \in [{StripFragment(Crowd[i]) : i \in 2..Len(Crowd)} -> {SizeFloor - 1, SizeFloor}]
    /\ selected = PendingVideo
    /\ selCall = NoCall
    /\ SelectorOnly

SelInit == SelInitEmpty \/ SelInitCrowd

SelNext ==
    \/ \E u \in UrlsOf(media) : \E head \in HeadsOf(media, u) : Response(u, head)
    \/ \E perf \in SideChannel, dom \in SideChannel, reprobeFails \in BOOLEAN :
          Select(perf, dom, reprobeFails)

SelSpec == SelInit /\ [][SelNext]_vars

----------------------------------------------------------------------------
(* extract *)

MaxWaitMs == 8000
PollMs == 250

SaveIO == [mkdir : BOOLEAN, write : BOOLEAN, screenshot : BOOLEAN]

\* saveDebugArtifacts; io tells which of mkdirSync, writeFileSync and
\* page.screenshot succeed
saveDebugArtifacts(dir, hasHtml, io) ==
    IF ~dir THEN NoDebug
    ELSE IF ~io.mkdir THEN NoDebug
    ELSE IF hasHtml /\ ~io.write THEN NoDebug
    ELSE [defined |-> TRUE, htmlPath |-> hasHtml, screenshotPath |-> io.screenshot]

clickSelectors ==
    <<"[data-testid=videoPlayer]", "video", "div[role=button][aria-label*=Play]",
      "div[role=button][aria-label*=play]">>

ClickOutcomes == [1..Len(clickSelectors) -> {"absent", "clicked", "throws"}]

\* the click loop of tryTriggerPlayback: number of clicks that succeeded
\* the click loop of tryTriggerPlayback: whether a click it made threw
RECURSIVE ClickThrows(_, _)
ClickThrows(outcome, i) ==
    IF i > Len(clickSelectors) THEN FALSE
    ELSE IF outcome[i] = "absent" THEN ClickThrows(outcome, i + 1)
    ELSE IF outcome[i] = "clicked" THEN FALSE
    ELSE TRUE

RECURSIVE ClickAll(_, _)
ClickAll(outcome, i) ==
    IF i > Len(clickSelectors) THEN 0
    ELSE (IF outcome[i] = "clicked" THEN 1 ELSE 0) + ClickAll(outcome, i + 1)

RECURSIVE ClickLoop(_, _)
ClickLoop(outcome, i) ==
    IF i > Len(clickSelectors) THEN 0
    ELSE IF outcome[i] = "absent" THEN ClickLoop(outcome, i + 1)
    ELSE IF outcome[i] = "clicked" THEN 1
    ELSE ClickLoop(outcome, i + 1)

OnlyMp4 == {"mp4"}

\* line 325: the formats that end the wait
AcceptedFormats == {"mp4", "m3u8", "webm", "gif"}

Step(next) ==
    /\ pc' = next
    /\ phases' = Append(phases, next)

RetryNavigation(step) ==
    /\ Step("goto")
    /\ faults' = faults \cup {step}

\* a rejected await inside the try block: control goes to the catch block
Throw(step) ==
    /\ Step("catch")
    /\ faults' = faults \cup {step}

AlwaysPlayback(html) == "playback"

WallEndsAttempt(html) ==
    IF isPrivateTweet(html) \/ hasLoginWall(html) THEN "protected" ELSE "playback"

\* line 88: only a protected page leaves the attempt after page.content()
AfterContent(html) == IF isPrivateTweet(html) THEN "protected" ELSE "playback"

SwappedClassification(loginWall) == IF loginWall THEN "no_video_found" ELSE "login_wall"

\* line 121: the classification of a run whose selection is null
NoVideoClassification(loginWall) == IF loginWall THEN "login_wall" ELSE "no_video_found"

\* lines 45-62: the two validation returns and parseTweetUrl
Validate ==
    /\ pc = "idle"
    /\ IF ~isValidTwitterUrl(input)
       THEN /\ result' = Failure(MsgInvalidUrl, "invalid_url", NoDebug)
            /\ Step("done")
            /\ UNCHANGED faults
       ELSE LET tweetInfo == parseTweetUrl(input) IN
            IF tweetInfo = "throws"
            THEN /\ Step("threw")
                 /\ faults' = faults \cup {"parse"}
                 /\ UNCHANGED result
            ELSE IF tweetInfo = "null"
            THEN /\ result' = Failure(MsgParseError, "parse_error", NoDebug)
                 /\ Step("done")
                 /\ UNCHANGED faults
            ELSE /\ Step("import")
                 /\ UNCHANGED <<result, faults>>
    /\ UNCHANGED <<input, profileDir, debugDir, pageHtml, launched, held, closeCalls,
                   elapsed, clicks, swallowed>>
    /\ UNCHANGED selVars
    /\ UNCHANGED auxVars

\* line 64: await import('playwright'), outside the try block
ImportPlaywright(ok) ==
    /\ pc = "import"
    /\ IF ok THEN Step("launch") /\ UNCHANGED faults
       ELSE Step("threw") /\ faults' = faults \cup {"import"}
    /\ UNCHANGED <<input, profileDir, debugDir, pageHtml, launched, held, closeCalls,
                   elapsed, clicks, swallowed, result>>
    /\ UNCHANGED selVars
    /\ UNCHANGED auxVars

\* createContextAndPage: launchPersistentContext or chromium.launch
Launch(ok) ==
    /\ pc = "launch"
    /\ IF ~ok THEN Throw("launch") /\ UNCHANGED launched
       ELSE IF profileDir
       THEN Step("newPage") /\ launched' = launched \cup {"context"} /\ UNCHANGED faults
       ELSE Step("newContext") /\ launched' = launched \cup {"browser"} /\ UNCHANGED faults
    /\ UNCHANGED <<input, profileDir, debugDir, pageHtml, held, closeCalls,
                   elapsed, clicks, swallowed, result>>
    /\ UNCHANGED selVars
    /\ UNCHANGED auxVars

\* createContextAndPage: browser.newContext
NewContext(ok) ==
    /\ pc = "newContext"
    /\ IF ~ok THEN Throw("newContext") /\ UNCHANGED launched
       ELSE Step("newPage") /\ launched' = launched \cup {"context"} /\ UNCHANGED faults
    /\ UNCHANGED <<input, profileDir, debugDir, pageHtml, held, closeCalls,
                   elapsed, clicks, swallowed, result>>
    /\ UNCHANGED selVars
    /\ UNCHANGED auxVars

\* createContextAndPage: context.newPage, then the destructuring assignment
\* of line 71 and page.on('response', ...)
NewPage(ok) ==
    /\ pc = "newPage"
    /\ IF ~ok THEN Throw("newPage") /\ UNCHANGED <<launched, held>>
       ELSE /\ Step("goto")
            /\ launched' = launched \cup {"page"}
            /\ held' = launched \cup {"page"}
            /\ UNCHANGED faults
    /\ UNCHANGED <<input, profileDir, debugDir, pageHtml, closeCalls,
                   elapsed, clicks, swallowed, result>>
    /\ UNCHANGED selVars
    /\ UNCHANGED auxVars

\* line 81: page.goto
GotoPage(ok) ==
    /\ pc = "goto"
    /\ IF ok THEN Step("settle") /\ UNCHANGED faults ELSE Throw("goto")
    /\ UNCHANGED <<input, profileDir, debugDir, pageHtml, launched, held, closeCalls,
                   elapsed, clicks, swallowed, result>>
    /\ UNCHANGED selVars
    /\ UNCHANGED auxVars

\* line 84: page.waitForTimeout(1500)
Settle(ok) ==
    /\ pc = "settle"
    /\ IF ok THEN Step("content") /\ UNCHANGED faults ELSE Throw("settle")
    /\ UNCHANGED <<input, profileDir, debugDir, pageHtml, launched, held, closeCalls,
                   elapsed, clicks, swallowed, result>>
    /\ UNCHANGED selVars
    /\ UNCHANGED auxVars

\* lines 86-101: page.content(), isPrivateTweet, hasLoginWall
Content(ok, html) ==
    /\ pc = "content"
    /\ IF ~ok THEN Throw("content") /\ UNCHANGED pageHtml
       ELSE /\ pageHtml' = html
            /\ Step(AfterContent(html))
            /\ UNCHANGED faults
    /\ UNCHANGED <<input, profileDir, debugDir, launched, held, closeCalls,
                   elapsed, clicks, swallowed, result>>
    /\ UNCHANGED selVars
    /\ UNCHANGED auxVars

\* lines 89-95: the protected-account return
Protected(io) ==
    /\ pc = "protected"
    /\ result' = Failure(MsgProtected, "protected_account",
                         saveDebugArtifacts(debugDir, TRUE, io))
    /\ Step("finally")
    /\ UNCHANGED <<input, profileDir, debugDir, pageHtml, launched, held, closeCalls,
                   elapsed, clicks, swallowed, faults>>
    /\ UNCHANGED selVars
    /\ UNCHANGED auxVars

\* line 104: tryTriggerPlayback; every failure inside it is swallowed
Playback(evaluateOk, outcome) ==
    /\ pc = "playback"
    /\ clicks' = ClickLoop(outcome, 1)
    /\ swallowed' = swallowed \cup (IF evaluateOk THEN {} ELSE {"evaluate"})
                              \cup (IF ClickThrows(outcome, 1) THEN {"click"} ELSE {})
    /\ elapsed' = 0
    /\ Step("wait")
    /\ UNCHANGED <<input, profileDir, debugDir, pageHtml, launched, held, closeCalls,
                   faults, result>>
    /\ UNCHANGED selVars
    /\ UNCHANGED auxVars

\* one round of the loop of waitForNetworkCandidates; elapsed is Date.now() - start,
\* which is gone when the function returns
Poll ==
    /\ pc = "wait"
    /\ IF elapsed < MaxWaitMs
       THEN IF \E i \in 1..Len(cands) : getVideoFormat(cands[i]) \in AcceptedFormats
            THEN Step("select") /\ elapsed' = 0
            ELSE elapsed' = elapsed + PollMs /\ UNCHANGED <<pc, phases>>
       ELSE Step("select") /\ elapsed' = 0
    /\ UNCHANGED <<input, profileDir, debugDir, pageHtml, launched, held, closeCalls,
                   clicks, swallowed, faults, result>>
    /\ UNCHANGED selVars
    /\ UNCHANGED auxVars

\* what page.evaluate gives a side channel: it rejects, or resolves with urls
ChannelReads ==
    {[ok |-> FALSE, urls |-> <<>>], [ok |-> TRUE, urls |-> <<>>],
     [ok |-> TRUE, urls |-> <<UMp4HiFrag, UThumb>>]}

OnTargetDomain(u) == Includes(u, "video.twimg.com")

\* getPerformanceCandidates and getDomCandidates: the urls of the target
\* domain, [] when the evaluation throws
ChannelCandidates(read) == IF read.ok THEN Keep(read.urls, OnTargetDomain) ELSE <<>>

\* lines 109-130: selectBestVideoUrl and the two returns after it
SelectAndReturn(perf, dom, reprobeFails, io) ==
    /\ pc = "select"
    /\ LET perfCandidates == ChannelCandidates(perf)
           domCandidates == ChannelCandidates(dom)
           run == SelectionRun(cands, perfCandidates, domCandidates, contentLength,
                               reprobeFails)
           loginWall == hasLoginWall(pageHtml)
       IN /\ selected' = run.video
          /\ selCall' = [side |-> Unique(perfCandidates \o domCandidates),
                         reprobe |-> run.size]
          /\ swallowed' = swallowed \cup (IF perf.ok THEN {} ELSE {"performance"})
                                    \cup (IF dom.ok THEN {} ELSE {"dom"})
          /\ result' =
                IF run.video = NullVideo
                THEN Failure(IF loginWall THEN MsgLoginWall ELSE MsgNoVideo,
                             NoVideoClassification(loginWall),
                             saveDebugArtifacts(debugDir, pageHtml # <<>>, io))
                ELSE Success(run.video)
    /\ Step("finally")
    /\ UNCHANGED <<input, profileDir, debugDir, pageHtml, launched, held, closeCalls,
                   elapsed, clicks, faults>>
    /\ UNCHANGED <<media, cands, contentLength>>
    /\ UNCHANGED auxVars

\* lines 131-139: the catch block
Catch(io) ==
    /\ pc = "catch"
    /\ result' = Failure(MsgThrown, "extraction_error",
                         IF "page" \in held
                         THEN saveDebugArtifacts(debugDir, FALSE, io) ELSE NoDebug)
    /\ Step("finally")
    /\ UNCHANGED <<input, profileDir, debugDir, pageHtml, launched, held, closeCalls,
                   elapsed, clicks, swallowed, faults>>
    /\ UNCHANGED selVars
    /\ UNCHANGED auxVars

\* lines 140-142: safeClose; a rejected close() is swallowed
SafeClose(contextOk, browserOk) ==
    /\ pc = "finally"
    /\ closeCalls' = [context |-> closeCalls.context + (IF "context" \in held THEN 1 ELSE 0),
                      browser |-> closeCalls.browser + (IF "browser" \in held THEN 1 ELSE 0)]
    /\ Step("done")
    /\ UNCHANGED <<input, profileDir, debugDir, pageHtml, launched, held,
                   elapsed, clicks, swallowed, faults, result>>
    /\ UNCHANGED selVars
    /\ UNCHANGED auxVars

\* the media a page of each kind requests while extract drives it
PageKinds == {"none", "video"}

\* every tweet url is run; the urls other than TUPublic are run without a
\* profile or debug directory against a page that requests no media, and a
\* page with media is run without a profile
Init ==
    /\ media \in PageKinds
    /\ cands = <<>>
    /\ contentLength = <<>>
    /\ selected = PendingVideo
    /\ selCall = NoCall
    /\ pc = "idle"
    /\ input \in TweetUrls
    /\ profileDir \in BOOLEAN
    /\ debugDir \in BOOLEAN
    /\ input # TUPublic => (media = "none" /\ ~profileDir /\ ~debugDir)
    /\ media # "none" => ~profileDir
    /\ pageHtml = <<>>
    /\ launched = {}
    /\ held = {}
    /\ closeCalls = NoCloseCalls
    /\ elapsed = 0
    /\ clicks = 0
    /\ swallowed = {}
    /\ faults = {}
    /\ phases = <<>>
    /\ result = NoResult
    /\ AuxIdle

Next ==
    \/ Validate
    \/ \E ok \in BOOLEAN : ImportPlaywright(ok)
    \/ \E ok \in BOOLEAN : Launch(ok)
    \/ \E ok \in BOOLEAN : NewContext(ok)
    \/ \E ok \in BOOLEAN : NewPage(ok)
    \/ \E ok \in BOOLEAN : GotoPage(ok)
    \/ \E ok \in BOOLEAN : Settle(ok)
    \/ \E ok \in BOOLEAN, html \in Htmls : Content(ok, html)
    \/ \E io \in SaveIO : Protected(io)
    \/ \E evaluateOk \in BOOLEAN, outcome \in ClickOutcomes : Playback(evaluateOk, outcome)
    \/ Poll
    \/ \E u \in UrlsOf(media) : \E head \in HeadsOf(media, u) : Response(u, head)
    \/ \E perf \in ChannelReads, dom \in ChannelReads, reprobeFails \in BOOLEAN, io \in SaveIO :
          SelectAndReturn(perf, dom, reprobeFails, io)
    \/ \E io \in SaveIO : Catch(io)
    \/ \E contextOk \in BOOLEAN, browserOk \in BOOLEAN : SafeClose(contextOk, browserOk)

Spec == Init /\ [][Next]_vars

\* extract on the public tweet url without profile or debug directory; the
\* timer of waitForNetworkCandidates fires, so a due poll is taken
WaitInit == Init /\ input = TUPublic /\ ~profileDir /\ ~debugDir

WaitSpec == WaitInit /\ [][Next]_vars /\ WF_vars(Poll)

----------------------------------------------------------------------------
(* downloadHlsWithFfmpeg *)

MaxBytes == 2          \* most bytes the subprocess writes in one run
MaxClock == 124000     \* the clock stops here

DefaultTimeoutMs == 120000
NoProgressTimeoutMs == 30000
PollIntervalMs == 2000
IdleCap == NoProgressTimeoutMs + 4 * PollIntervalMs

\* the values of options.timeout a run is started with
TimeoutOptions == {NoNumber, 0, 40000}

\* `timeout ?? 120000`
timeoutMs == IF timeout = NoNumber THEN DefaultTimeoutMs ELSE timeout

\* the remaining process and the rest of the program while a download runs
SelIdle ==
    /\ media = "none"
    /\ cands = <<>>
    /\ contentLength = <<>>
    /\ selected = PendingVideo
    /\ selCall = NoCall

RunIdle ==
    /\ pc = "idle"
    /\ input = TUPublic
    /\ profileDir = FALSE
    /\ debugDir = FALSE
    /\ pageHtml = <<>>
    /\ launched = {}
    /\ held = {}
    /\ closeCalls = NoCloseCalls
    /\ elapsed = 0
    /\ clicks = 0
    /\ swallowed = {}
    /\ faults = {}
    /\ phases = <<>>
    /\ result = NoResult

\* stderr.trim() of the text captured from the subprocess
StderrTexts == {"", " ", "Error opening input"}
Trim(text) == IF text = " " THEN "" ELSE text

\* the messages of the Error objects given to reject
MsgStuck == <<"FFMPEG stuck: no progress for ", ToString(NoProgressTimeoutMs \div 1000), " seconds">>
MsgTimedOut == <<"FFMPEG download timed out after ", ToString(timeoutMs \div 1000), " seconds">>
MsgFailedToStart == <<"Failed to start ffmpeg: ", "err.message">>
\* line 103: stderr.trim() || `ffmpeg exited with code ${code ?? 'null (signal)'}`
MsgFailed(stderr, code) ==
    IF Trim(stderr) # "" THEN <<"Failed to download HLS: ", Trim(stderr)>>
    ELSE <<"Failed to download HLS: ", "ffmpeg exited with code ", code>>

Resettle(outcome, message) == promise' = outcome /\ detail' = message

\* reject(...) and resolve(...): a settled promise stays as it is
SettlePromise(outcome, message) ==
    /\ promise' = IF promise = "pending" THEN outcome ELSE promise
    /\ detail' = IF promise = "pending" THEN message ELSE detail

\* ffmpeg.kill('SIGKILL')
Kill ==
    /\ kills' = kills + 1
    /\ ffmpeg' = IF ffmpeg = "running" THEN "killed" ELSE ffmpeg

PollDue == "poll" \in timers /\ ~polled /\ clock > 0

NeverDue(at) == FALSE

\* the setTimeout(..., timeoutMs) callback is due
TimeoutDue(at) == "timeout" \in timers /\ at >= timeoutMs

\* `currentFileSize > lastFileSize` is false and
\* `now - lastProgressTime > noProgressTimeoutMs`
NoProgress(size, last, at) == ~(size > lastFileSize) /\ at - last > NoProgressTimeoutMs

LeftInPlace(size) == size

\* fs.unlinkSync(outputPath): what is at the path afterwards
Unlinked(size) == NoNumber

\* lines 23-50: existsSync/unlinkSync, then spawn and the two timers
FfStart(unlinkOk, spawnOk) ==
    /\ promise = "idle"
    /\ IF outputFile # NoNumber /\ ~unlinkOk
       THEN /\ promise' = "threw"
            /\ UNCHANGED <<outputFile, preexisting, ffmpeg, timers>>
       ELSE /\ promise' = "pending"
            /\ outputFile' = (IF outputFile # NoNumber THEN Unlinked(outputFile) ELSE outputFile)
            /\ preexisting' = (IF outputFile' = NoNumber /\ preexisting = "there"
                               THEN "deleted" ELSE preexisting)
            /\ ffmpeg' = IF spawnOk THEN "running" ELSE "failed"
            /\ timers' = {"poll", "timeout"}
    /\ lastFileSize' = 0
    /\ lastProgressTime' = clock
    /\ rejected' = FALSE
    /\ UNCHANGED <<timeout, clock, polled, kills, idleMs, detail>>
    /\ UNCHANGED notFf

\* the subprocess creates the output file without content
FfCreate ==
    /\ ffmpeg = "running"
    /\ outputFile = NoNumber
    /\ outputFile' = 0
    /\ UNCHANGED <<preexisting, timeout, ffmpeg, promise, detail, clock, lastFileSize,
                   lastProgressTime, rejected, timers, polled, kills, idleMs>>
    /\ UNCHANGED notFf

\* the subprocess adds bytes to the output file
FfWrite ==
    /\ ffmpeg = "running"
    /\ outputFile < MaxBytes
    /\ outputFile' = (IF outputFile = NoNumber THEN 0 ELSE outputFile) + 1
    /\ idleMs' = 0
    /\ UNCHANGED <<preexisting, timeout, ffmpeg, promise, detail, clock, lastFileSize,
                   lastProgressTime, rejected, timers, polled, kills>>
    /\ UNCHANGED notFf

\* lines 63-86: one run of the setInterval callback; statOk: statSync answers
FfPoll(statOk) ==
    /\ PollDue
    /\ polled' = TRUE
    /\ IF outputFile = NoNumber \/ ~statOk
       THEN UNCHANGED <<lastFileSize, lastProgressTime, rejected, timers, kills,
                        ffmpeg, promise, detail>>
       ELSE IF outputFile > lastFileSize
       THEN /\ lastFileSize' = outputFile
            /\ lastProgressTime' = clock
            /\ UNCHANGED <<rejected, timers, kills, ffmpeg, promise, detail>>
       ELSE IF NoProgress(outputFile, lastProgressTime, clock)
       THEN /\ timers' = {}
            /\ rejected' = TRUE
            /\ Kill
            /\ SettlePromise("stuck", MsgStuck)
            /\ UNCHANGED <<lastFileSize, lastProgressTime>>
       ELSE UNCHANGED <<lastFileSize, lastProgressTime, rejected, timers, kills,
                        ffmpeg, promise, detail>>
    /\ UNCHANGED <<outputFile, preexisting, timeout, clock, idleMs>>
    /\ UNCHANGED notFf

\* lines 88-93: the setTimeout callback
FfTimeout ==
    /\ TimeoutDue(clock)
    /\ ffmpeg # "failed"
    /\ timers' = {}
    /\ rejected' = TRUE
    /\ Kill
    /\ SettlePromise("timed out", MsgTimedOut)
    /\ UNCHANGED <<outputFile, preexisting, timeout, clock, lastFileSize,
                   lastProgressTime, polled, idleMs>>
    /\ UNCHANGED notFf

\* the subprocess ends by itself with exit code 0 or 1; its 'close' event
\* is delivered by a later turn of the event loop
FfExit(code) ==
    /\ ffmpeg = "running"
    /\ ffmpeg' = IF code = 0 THEN "ended 0" ELSE "ended 1"
    /\ UNCHANGED <<outputFile, preexisting, timeout, promise, detail, clock, lastFileSize,
                   lastProgressTime, rejected, timers, polled, kills, idleMs>>
    /\ UNCHANGED notFf

\* the subprocess is gone and 'close' has not been delivered
CloseDue == ffmpeg \in {"ended 0", "ended 1", "killed"}

\* lines 95-106: the 'close' handler; the code is null for a killed
\* subprocess; stderr is the text captured by then
FfClosed(stderr) ==
    /\ CloseDue
    /\ ffmpeg' = "exited"
    /\ timers' = {}
    /\ IF ffmpeg = "ended 0" THEN SettlePromise("resolved", <<"outputPath">>)
       ELSE IF ~rejected
       THEN SettlePromise("failed",
                          MsgFailed(stderr, IF ffmpeg = "killed" THEN "null (signal)" ELSE "1"))
       ELSE UNCHANGED <<promise, detail>>
    /\ UNCHANGED <<outputFile, preexisting, timeout, clock, lastFileSize,
                   lastProgressTime, rejected, polled, kills, idleMs>>
    /\ UNCHANGED notFf

\* lines 108-115: 'error' of a subprocess that could not be spawned
FfError ==
    /\ ffmpeg = "failed"
    /\ ffmpeg' = "exited"
    /\ timers' = {}
    /\ IF ~rejected
       THEN rejected' = TRUE /\ SettlePromise("failed to start", MsgFailedToStart)
       ELSE UNCHANGED <<rejected, promise, detail>>
    /\ UNCHANGED <<outputFile, preexisting, timeout, clock, lastFileSize,
                   lastProgressTime, polled, kills, idleMs>>
    /\ UNCHANGED notFf

\* time passes by one polling interval; callbacks and events that are due
\* run first
FfTick ==
    /\ promise = "pending"
    /\ ffmpeg # "failed"
    /\ ~CloseDue
    /\ ~PollDue
    /\ ~TimeoutDue(clock)
    /\ clock < MaxClock
    /\ clock' = clock + PollIntervalMs
    /\ polled' = FALSE
    /\ idleMs' = IF idleMs + PollIntervalMs > IdleCap THEN IdleCap ELSE idleMs + PollIntervalMs
    /\ UNCHANGED <<outputFile, preexisting, timeout, ffmpeg, promise, detail, lastFileSize,
                   lastProgressTime, rejected, timers, kills>>
    /\ UNCHANGED notFf

FfInit ==
    /\ SelIdle
    /\ RunIdle
    /\ outputFile \in {NoNumber, 0, 1}
    /\ preexisting = (IF outputFile # NoNumber THEN "there" ELSE "none")
    /\ timeout \in TimeoutOptions
    /\ ffmpeg = "none"
    /\ promise = "idle"
    /\ clock = 0
    /\ lastFileSize = 0
    /\ lastProgressTime = 0
    /\ rejected = FALSE
    /\ timers = {}
    /\ polled = TRUE
    /\ kills = 0
    /\ idleMs = 0
    /\ detail = <<>>
    /\ WallIdle
    /\ FmtIdle
    /\ CliIdle
    /\ InstIdle
    /\ DlIdle

FfNext ==
    \/ \E unlinkOk \in BOOLEAN, spawnOk \in BOOLEAN : FfStart(unlinkOk, spawnOk)
    \/ FfCreate
    \/ FfWrite
    \/ \E statOk \in BOOLEAN : FfPoll(statOk)
    \/ FfTimeout
    \/ \E code \in {0, 1} : FfExit(code)
    \/ \E stderr \in StderrTexts : FfClosed(stderr)
    \/ FfError
    \/ FfTick

FfSpec == FfInit /\ [][FfNext]_vars

----------------------------------------------------------------------------
(* hasLoginWall applied to texts *)

MaxWords == 3          \* longest text, in words

\* words a text is made of, in the letter cases that occur
Vocabulary == {"log", "Log", "LOG", "sign", "Sign", "SIGN", "in", "In", "IN",
               "up", "to", "view", "hello"}

RECURSIVE TextsOfLength(_)
TextsOfLength(n) ==
    IF n = 0 THEN {<<>>}
    ELSE {Append(t, w) : t \in TextsOfLength(n - 1), w \in Vocabulary}

Texts ==
    UNION {TextsOfLength(n) : n \in 0..MaxWords}
        \cup Htmls \cup {<<"Join", "the", "conversation", "Sign", "in">>}

\* a boolean return value as it is recorded
Returns(b) == IF b THEN "true" ELSE "false"

\* hasLoginWall is called
CheckWall ==
    /\ wall = Undefined
    /\ wall' = Returns(hasLoginWall(wallHtml))
    /\ UNCHANGED wallHtml
    /\ UNCHANGED notWall

\* the letter case of word i changes and hasLoginWall is called on the result
Recase(i, w) ==
    /\ wall # Undefined
    /\ i \in 1..Len(wallHtml)
    /\ w # wallHtml[i]
    /\ LowerWord(w) = LowerWord(wallHtml[i])
    /\ wallHtml' = [wallHtml EXCEPT ![i] = w]
    /\ wall' = Returns(hasLoginWall(wallHtml'))
    /\ UNCHANGED notWall

WallInit ==
    /\ SelIdle
    /\ RunIdle
    /\ FfIdle
    /\ FmtIdle
    /\ CliIdle
    /\ InstIdle
    /\ DlIdle
    /\ wallHtml \in Texts
    /\ wall = Undefined

WallNext ==
    \/ CheckWall
    \/ \E i \in 1..MaxWords, w \in Vocabulary : Recase(i, w)

WallSpec == WallInit /\ [][WallNext]_vars

----------------------------------------------------------------------------
(* getVideoFormat applied to urls *)

\* the extension tokens a url path ends in, and the tag each one names
ExtensionTags ==
    [t \in {".mp4", ".MP4", ".m3u8", ".M3U8", ".webm", ".WEBM", ".gif", ".GIF",
            ".m4s", ".M4S", ".m4a", ".M4A", ".ts", ".TS", ".mov", ".MOV"} |->
        CASE LowerTok(t) = ".mp4" -> "mp4"
          [] LowerTok(t) = ".m3u8" -> "m3u8"
          [] LowerTok(t) = ".webm" -> "webm"
          [] LowerTok(t) = ".gif" -> "gif"
          [] LowerTok(t) = ".m4s" -> "m4s"
          [] LowerTok(t) = ".m4a" -> "m4a"
          [] LowerTok(t) = ".ts" -> "ts"
          [] LowerTok(t) = ".mov" -> "mov"]

UrlHosts == {"https://video.twimg.com/", "https://example.com/"}
UrlSuffixes == {<<>>, <<"?tag=12">>, <<"#", "t=10">>}

\* urls whose path ends in an extension, and urls without one
UrlsWithExtension ==
    {<<h, "video", e>> \o x : h \in UrlHosts, e \in DOMAIN ExtensionTags, x \in UrlSuffixes}
UrlsWithoutExtension ==
    {<<h, "video">> \o x : h \in UrlHosts, x \in UrlSuffixes}

\* getVideoFormat(url) is called
Classify ==
    /\ fmt = Undefined
    /\ fmt' = getVideoFormat(fmtUrl)
    /\ UNCHANGED fmtUrl
    /\ UNCHANGED notFmt

FmtInit ==
    /\ SelIdle
    /\ RunIdle
    /\ FfIdle
    /\ WallIdle
    /\ CliIdle
    /\ InstIdle
    /\ DlIdle
    /\ fmtUrl \in UrlsWithExtension \cup UrlsWithoutExtension
    /\ fmt = Undefined

FmtNext == Classify

FmtSpec == FmtInit /\ [][FmtNext]_vars

----------------------------------------------------------------------------
(* main of the CLI, from the call of extract on *)

\* what extract hands to main
CliResults == {"error", "mp4", "gif", "unknown", "m3u8"}

\* the HTTP statuses of a response that is not ok, as the template literal
\* of the error message prints them
FailureStatuses == {"401", "403", "404", "429", "500"}

\* how a download ends: "ok", an HTTP status that is not ok, a failing
\* fetch, a response without body reader, a failing write
DownloadOutcomes == {"ok", "network", "reader", "write"} \cup FailureStatuses

\* error.message: the template `HTTP error! status: ${response.status}` and
\* the messages of the other failures
MessageOf(outcome) ==
    CASE outcome \in FailureStatuses -> <<"HTTP error! status: ", outcome>>
      [] outcome = "network" -> <<"fetch failed">>
      [] outcome = "reader" -> <<"Failed to get response body reader">>
      [] outcome = "write" -> <<"ENOENT: no such file or directory, open ", "outputPath">>

\* message.includes('status: ' + code) for a three-digit code
IncludesStatus(message, code) ==
    \E i \in 1..(Len(message) - 1) :
        message[i] = "HTTP error! status: " /\ message[i + 1] = code

\* line 1144
isAuthFailure(message) == IncludesStatus(message, "401") \/ IncludesStatus(message, "403")

AlwaysRetry(authFailure, profile) == TRUE

\* line 1146: `isAuthFailure && profileDir`
RetriesAuthenticated(authFailure, profile) == authFailure /\ profile

\* process.exit(code), and the end of main
Exit(code) ==
    /\ cliPc' = "exited"
    /\ exitCode' = code

\* lines 1081-1101: extract returns; error, --url-only, or on to the download
CliExtract(r) ==
    /\ cliPc = "start"
    /\ cliResult' = r
    /\ IF r = "error" THEN Exit(1)
       ELSE IF cliArgs.urlOnly THEN Exit(0)
       ELSE cliPc' = (IF r = "m3u8" THEN "hls" ELSE "download") /\ UNCHANGED exitCode
    /\ UNCHANGED <<cliArgs, cliMessage, authCalls>>
    /\ UNCHANGED notCli

\* lines 1103-1128: the playlist branch
CliHls(ffmpegReady, ok) ==
    /\ cliPc = "hls"
    /\ IF ffmpegReady /\ ok THEN Exit(0) ELSE Exit(1)
    /\ UNCHANGED <<cliArgs, cliResult, cliMessage, authCalls>>
    /\ UNCHANGED notCli

\* lines 1130-1143: downloadVideo resolves or rejects
CliDownload(outcome) ==
    /\ cliPc = "download"
    /\ IF outcome = "ok"
       THEN Exit(0) /\ UNCHANGED cliMessage
       ELSE cliPc' = "caught" /\ cliMessage' = MessageOf(outcome) /\ UNCHANGED exitCode
    /\ UNCHANGED <<cliArgs, cliResult, authCalls>>
    /\ UNCHANGED notCli

\* lines 1143-1154: the catch block up to the call of downloadAuthenticated
CliCatch ==
    /\ cliPc = "caught"
    /\ IF RetriesAuthenticated(isAuthFailure(cliMessage), cliArgs.profile)
       THEN /\ authCalls' = authCalls + 1
            /\ cliPc' = "retry"
            /\ UNCHANGED exitCode
       ELSE Exit(1) /\ UNCHANGED authCalls
    /\ UNCHANGED <<cliArgs, cliResult, cliMessage>>
    /\ UNCHANGED notCli

\* lines 1148-1150 and 1166-1169: downloadAuthenticated resolves, or rejects
\* and main().catch exits
CliRetry(outcome) ==
    /\ cliPc = "retry"
    /\ IF outcome = "ok" THEN Exit(0) ELSE Exit(1)
    /\ UNCHANGED <<cliArgs, cliResult, cliMessage, authCalls>>
    /\ UNCHANGED notCli

CliInit ==
    /\ SelIdle
    /\ RunIdle
    /\ FfIdle
    /\ WallIdle
    /\ FmtIdle
    /\ InstIdle
    /\ DlIdle
    /\ cliPc = "start"
    /\ cliArgs \in [profile : BOOLEAN, urlOnly : BOOLEAN]
    /\ cliResult = Undefined
    /\ cliMessage = <<>>
    /\ authCalls = 0
    /\ exitCode = NoNumber

CliNext ==
    \/ \E r \in CliResults : CliExtract(r)
    \/ \E ffmpegReady \in BOOLEAN, ok \in BOOLEAN : CliHls(ffmpegReady, ok)
    \/ \E outcome \in DownloadOutcomes : CliDownload(outcome)
    \/ CliCatch
    \/ \E outcome \in DownloadOutcomes : CliRetry(outcome)

CliSpec == CliInit /\ [][CliNext]_vars

----------------------------------------------------------------------------
(* The install script: main and the functions it calls, under
   `set -euo pipefail` *)

MaxLines == 2

\* the release assets; no name contains another, so `grep "$BINARY"` selects
\* the lines of checksums.txt that name the asset
Binaries == {"xld-macos-apple-silicon", "xld-macos-intel", "xld-linux-x64"}

\* SHA-256 digests
Shas == {"sha-a", "sha-b"}

\* a line of checksums.txt: digest, then file name
ChecksumLines == [sha : Shas, name : Binaries]

Listings == UNION {[1..n -> ChecksumLines] : n \in 0..MaxLines}

\* $(echo "$CHECKSUMS" | grep "$BINARY" | awk '{print $1}')
RECURSIVE GrepAwk(_, _)
GrepAwk(lines, binary) ==
    IF lines = <<>> THEN <<>>
    ELSE (IF Head(lines).name = binary THEN <<Head(lines).sha>> ELSE <<>>)
         \o GrepAwk(Tail(lines), binary)

\* the order of the calls in main
MainSteps ==
    <<"detect_platform", "detect_shell", "install_binary", "download_binary",
      "download_checksums", "verify_checksum", "verify_binary", "update_path",
      "prompt_chromium", "print_summary">>

StepAfter(step) ==
    LET i == CHOOSE j \in 1..Len(MainSteps) : MainSteps[j] = step
    IN  IF i = Len(MainSteps) THEN "exited" ELSE MainSteps[i + 1]

\* main calls the function `step`
Calls(step) ==
    /\ instPc = step
    /\ ran' = Append(ran, step)

\* the function returns 0 and main goes on; after print_summary the script
\* ends with status 0
Returns0(step) ==
    /\ instPc' = StepAfter(step)
    /\ instExit' = IF StepAfter(step) = "exited" THEN 0 ELSE NoNumber

\* `exit code`, also through log_error and through `set -e`
ExitScript(code) ==
    /\ instPc' = "exited"
    /\ instExit' = code

\* what the mismatch branch of verify_checksum leaves at ~/.local/bin/x-dl:
\* the first log_error exits the script, `rm -f` is not reached
AfterMismatch(file) == file

\* lines 50-85; platform is the asset name or "unsupported"
DetectPlatform(platform) ==
    /\ Calls("detect_platform")
    /\ IF platform \in Binaries
       THEN BINARY' = platform /\ Returns0("detect_platform")
       ELSE ExitScript(1) /\ UNCHANGED BINARY
    /\ UNCHANGED <<CHECKSUMS, EXPECTED_SHA, ACTUAL_SHA, xdl>>
    /\ UNCHANGED notInst

\* lines 87-109
DetectShell(supported) ==
    /\ Calls("detect_shell")
    /\ IF supported THEN Returns0("detect_shell") ELSE ExitScript(1)
    /\ UNCHANGED <<BINARY, CHECKSUMS, EXPECTED_SHA, ACTUAL_SHA, xdl>>
    /\ UNCHANGED notInst

\* lines 191-202
InstallBinary(writable) ==
    /\ Calls("install_binary")
    /\ IF writable THEN Returns0("install_binary") ELSE ExitScript(3)
    /\ UNCHANGED <<BINARY, CHECKSUMS, EXPECTED_SHA, ACTUAL_SHA, xdl>>
    /\ UNCHANGED notInst

\* lines 111-123; written is the digest of what curl wrote to the path, or
\* "untouched" when a failing curl wrote nothing
DownloadBinary(curlOk, written) ==
    /\ Calls("download_binary")
    /\ curlOk => written \in Shas
    /\ xdl' = IF written \in Shas THEN written ELSE xdl
    /\ IF curlOk THEN Returns0("download_binary") ELSE ExitScript(2)
    /\ UNCHANGED <<BINARY, CHECKSUMS, EXPECTED_SHA, ACTUAL_SHA>>
    /\ UNCHANGED notInst

\* lines 125-139; a failing curl gives the empty listing; `return 1` ends the
\* script under `set -e`
DownloadChecksums(listing) ==
    /\ Calls("download_checksums")
    /\ CHECKSUMS' = listing
    /\ IF listing = <<>> THEN ExitScript(1) ELSE Returns0("download_checksums")
    /\ UNCHANGED <<BINARY, EXPECTED_SHA, ACTUAL_SHA, xdl>>
    /\ UNCHANGED notInst

\* lines 141-170
VerifyChecksum ==
    /\ Calls("verify_checksum")
    /\ IF CHECKSUMS = <<>>
       THEN /\ Returns0("verify_checksum")
            /\ UNCHANGED <<EXPECTED_SHA, ACTUAL_SHA, xdl>>
       ELSE IF GrepAwk(CHECKSUMS, BINARY) = <<>>
       THEN \* grep selects nothing: the pipeline fails under pipefail
            /\ ExitScript(1)
            /\ UNCHANGED <<EXPECTED_SHA, ACTUAL_SHA, xdl>>
       ELSE /\ EXPECTED_SHA' = GrepAwk(CHECKSUMS, BINARY)
            /\ ACTUAL_SHA' = xdl
            /\ IF <<xdl>> # GrepAwk(CHECKSUMS, BINARY)
               THEN ExitScript(4) /\ xdl' = AfterMismatch(xdl)
               ELSE Returns0("verify_checksum") /\ UNCHANGED xdl
    /\ UNCHANGED <<BINARY, CHECKSUMS>>
    /\ UNCHANGED notInst

\* lines 172-189
VerifyBinary(runs) ==
    /\ Calls("verify_binary")
    /\ IF xdl = "nothing" THEN ExitScript(3)
       ELSE IF runs THEN Returns0("verify_binary")
       ELSE ExitScript(4)
    /\ UNCHANGED <<BINARY, CHECKSUMS, EXPECTED_SHA, ACTUAL_SHA, xdl>>
    /\ UNCHANGED notInst

\* lines 204-235
UpdatePath ==
    /\ Calls("update_path")
    /\ Returns0("update_path")
    /\ UNCHANGED <<BINARY, CHECKSUMS, EXPECTED_SHA, ACTUAL_SHA, xdl>>
    /\ UNCHANGED notInst

\* lines 237-254; without a terminal `read < /dev/tty` fails
PromptChromium(tty) ==
    /\ Calls("prompt_chromium")
    /\ IF tty THEN Returns0("prompt_chromium") ELSE ExitScript(1)
    /\ UNCHANGED <<BINARY, CHECKSUMS, EXPECTED_SHA, ACTUAL_SHA, xdl>>
    /\ UNCHANGED notInst

\* lines 256-288
PrintSummary ==
    /\ Calls("print_summary")
    /\ Returns0("print_summary")
    /\ UNCHANGED <<BINARY, CHECKSUMS, EXPECTED_SHA, ACTUAL_SHA, xdl>>
    /\ UNCHANGED notInst

InstInit ==
    /\ SelIdle
    /\ RunIdle
    /\ FfIdle
    /\ WallIdle
    /\ FmtIdle
    /\ CliIdle
    /\ DlIdle
    /\ instPc = "detect_platform"
    /\ BINARY = ""
    /\ CHECKSUMS = <<>>
    /\ EXPECTED_SHA = <<>>
    /\ ACTUAL_SHA = ""
    /\ xdl \in {"nothing"} \cup Shas
    /\ ran = <<>>
    /\ instExit = NoNumber

InstNext ==
    \/ \E platform \in Binaries \cup {"unsupported"} : DetectPlatform(platform)
    \/ \E supported \in BOOLEAN : DetectShell(supported)
    \/ \E writable \in BOOLEAN : InstallBinary(writable)
    \/ \E curlOk \in BOOLEAN, written \in Shas \cup {"untouched"} :
           DownloadBinary(curlOk, written)
    \/ \E listing \in Listings : DownloadChecksums(Tuple(listing))
    \/ VerifyChecksum
    \/ \E runs \in BOOLEAN : VerifyBinary(runs)
    \/ UpdatePath
    \/ \E tty \in BOOLEAN : PromptChromium(tty)
    \/ PrintSummary

InstSpec == InstInit /\ [][InstNext]_vars

----------------------------------------------------------------------------
(* downloadVideo *)

MaxBody == 4       \* most bytes of a response body

\* Date.now() when downloadVideo starts, in ms; any value above ThrottleMs
Epoch == 1000
ThrottleMs == 500

\* the byte lengths of the chunks reader.read() delivers
ChunkSizes == {1, 2}

\* the time that passes while a read is awaited
ReadDelays == {0, 300, 600}

\* what fetch comes to: it rejects, the status is not ok, the response has
\* no body, or the body can be read; the content-length header is missing,
\* no number, or the number len
FetchOutcomes ==
    {[kind |-> k, header |-> "none", len |-> 0] : k \in {"rejects", "not ok", "no body"}}
    \cup {[kind |-> "body", header |-> "none", len |-> 0],
          [kind |-> "body", header |-> "not a number", len |-> 0]}
    \cup {[kind |-> "body", header |-> "number", len |-> n] : n \in 0..(MaxBody + 1)}

\* line 20: contentLength ? parseInt(contentLength, 10) : 0; NaN is written 0:
\* like 0 it is not above 0 and equals no byte count
TotalOf(fetched) == IF fetched.header = "number" THEN fetched.len ELSE 0

\* the catch block: the error is logged and thrown again
DlRethrow == dlPc' = "rejected"

\* lines 43-50: the calls of onProgress after a chunk brought the count to n
Reported(calls, last, at, n, size) ==
    IF onProgress /\ size > 0 /\ (at - last > ThrottleMs \/ n = size)
    THEN Append(calls, <<n, size>>)
    ELSE calls

\* lines 13-29
DlFetch(fetched) ==
    /\ dlPc = "fetch"
    /\ IF fetched.kind \in {"rejects", "not ok"}
       THEN DlRethrow /\ UNCHANGED total
       ELSE /\ total' = TotalOf(fetched)
            /\ IF fetched.kind = "no body" THEN DlRethrow ELSE dlPc' = "read"
    /\ UNCHANGED <<onProgress, downloaded, lastProgressUpdate, dlNow, updates, destination>>
    /\ UNCHANGED notDl

\* lines 35-51: one reader.read() that delivers a chunk
DlChunk(size, delay) ==
    /\ dlPc = "read"
    /\ downloaded + size <= MaxBody
    /\ dlNow' = dlNow + delay
    /\ downloaded' = downloaded + size
    /\ updates' = Reported(updates, lastProgressUpdate, dlNow + delay, downloaded + size, total)
    /\ lastProgressUpdate' = IF updates' # updates THEN dlNow + delay ELSE lastProgressUpdate
    /\ UNCHANGED <<dlPc, onProgress, total, destination>>
    /\ UNCHANGED notDl

\* lines 36-38: reader.read() answers done, or rejects
DlEnd(readOk) ==
    /\ dlPc = "read"
    /\ IF readOk THEN dlPc' = "write" ELSE DlRethrow
    /\ UNCHANGED <<onProgress, total, downloaded, lastProgressUpdate, dlNow, updates,
                   destination>>
    /\ UNCHANGED notDl

\* lines 53-61: Bun.write(outputPath, blob) and the return
DlWrite(writeOk) ==
    /\ dlPc = "write"
    /\ IF writeOk
       THEN dlPc' = "resolved" /\ destination' = downloaded
       ELSE DlRethrow /\ UNCHANGED destination
    /\ UNCHANGED <<onProgress, total, downloaded, lastProgressUpdate, dlNow, updates>>
    /\ UNCHANGED notDl

DlInit ==
    /\ SelIdle
    /\ RunIdle
    /\ FfIdle
    /\ WallIdle
    /\ FmtIdle
    /\ CliIdle
    /\ InstIdle
    /\ dlPc = "fetch"
    /\ onProgress \in BOOLEAN
    /\ total = 0
    /\ downloaded = 0
    /\ lastProgressUpdate = 0
    /\ dlNow = Epoch
    /\ updates = <<>>
    /\ destination = NoNumber

DlNext ==
    \/ \E fetched \in FetchOutcomes : DlFetch(fetched)
    \/ \E size \in ChunkSizes, delay \in ReadDelays : DlChunk(size, delay)
    \/ \E readOk \in BOOLEAN : DlEnd(readOk)
    \/ \E writeOk \in BOOLEAN : DlWrite(writeOk)

DlSpec == DlInit /\ [][DlNext]_vars

----------------------------------------------------------------------------
(* Properties of the selector *)

Min(a, b) == IF a < b THEN a ELSE b

Selecting == selected # PendingVideo
Parsed == ParsedOf(cands, selCall.side, <<>>)
Playlists == {c \in Range(Parsed) : c.format = "m3u8"}
Pool == ProgressiveOf(Parsed)
Ranking == SortByProgressiveBoost(SortByScore(Pool))
Probed == {Ranking[i] : i \in 1..Min(Len(Ranking), ProbeLimit)}
SizeOf(c) == getContentLength(contentLength, c.url)
AreaOf(c) == IF c.width = NoNumber THEN 0 ELSE c.width * c.height
RankKey(c) == <<IF Includes(c.url, "/pu/vid/") THEN 1 ELSE 0, c.score>>
Marked(c) == Includes(c.url, "variant_version")
AudioMarked(c) == Includes(c.url, "/aud/") \/ Includes(c.url, "mp4a")
Chosen == pickBestProgressiveCandidate(Pool, contentLength)
ReprobedSize == selCall.reprobe

\* C1: with a playlist collected and a probed progressive candidate whose
\* content-length is at or above the floor, the result is a member of the
\* progressive pool and not a playlist, whatever the playlist's score.
C1_ProgressiveBeatsPlaylist ==
    (Selecting /\ Playlists # {}
        /\ \E c \in Probed : ~c.audioOnly /\ SizeOf(c) >= SizeFloor)
    => (selected.format # "m3u8" /\ \E c \in Range(Pool) : selected.url = c.url)

C1_Witness ==
    /\ Selecting
    /\ \E p \in Playlists : Marked(p) /\ p.score >= MasterBonus
    /\ \E c \in Probed : ~c.audioOnly /\ SizeOf(c) = SizeFloor
    /\ selected.format = "mp4"

\* C2: when the chosen progressive candidate's re-probed content-length is a
\* known value from 0 to 102399 and a playlist exists, the result is the best
\* playlist with format m3u8.
C2_SmallGivesPlaylist ==
    (Selecting /\ Len(Pool) > 0 /\ Playlists # {}
        /\ ReprobedSize # NoNumber /\ ReprobedSize >= 0 /\ ReprobedSize < SizeFloor)
    => selected = PlaylistResult(M3U8sOf(Parsed)[1])

\* C3 as stated: with only playlists collected, one whose url carries
\* 'variant_version' is selected over every playlist without it.
C3_MarkedPlaylistWins ==
    (Selecting /\ Parsed # <<>> /\ Playlists = Range(Parsed)
        /\ \E c \in Playlists : Marked(c))
    => Marked(selected)

\* C3 amended: with only playlists collected, a playlist that carries
\* 'variant_version' and no audio marker is selected over every playlist
\* without the marker or with an audio marker, provided the width x height of
\* each of those is below 2,000,000,000.
C3_NonAudioMasterWins ==
    (Selecting /\ Parsed # <<>> /\ Playlists = Range(Parsed)
        /\ \E c \in Playlists : Marked(c) /\ ~AudioMarked(c)
        /\ \A d \in Playlists : (~Marked(d) \/ AudioMarked(d)) => AreaOf(d) < MasterBonus)
    => (selected.format = "m3u8" /\ Marked(selected) /\ ~AudioMarked(selected))

C3_Witness ==
    /\ Selecting
    /\ Playlists = Range(Parsed)
    /\ \E c \in Playlists : ~Marked(c) /\ AreaOf(c) > 0
    /\ \E c \in Playlists : Marked(c) /\ AudioMarked(c)
    /\ Marked(selected) /\ ~AudioMarked(selected)

C18_NeverAudioOnly ==
    (Selecting /\ selected # NullVideo) => ~AudioMarked(selected)

Qualifying == {c \in Probed : SizeOf(c) >= SizeFloor}

\* C25: the ranking puts every candidate with '/pu/vid/' before every one
\* without it and orders each group by score, highest first; the candidate
\* picked is one of the six top-ranked; when one of those six has a
\* content-length of at least 102400 the pick is one of them with the
\* largest such content-length, otherwise it is the top-ranked candidate;
\* the progressive url selectBestVideoUrl returns is the url of the pick.
C25_PickAmongTopSix ==
    (Selecting /\ Len(Pool) > 0) =>
        /\ \A i \in 1..Len(Ranking) : \A j \in (i + 1)..Len(Ranking) :
              ~KeyBefore(RankKey(Ranking[j]), RankKey(Ranking[i]))
        /\ Cardinality(Probed) <= ProbeLimit
        /\ Chosen \in Probed
        /\ \A i \in (ProbeLimit + 1)..Len(Ranking) : Ranking[i] # Chosen
        /\ Qualifying # {} =>
              (Chosen \in Qualifying /\ \A c \in Qualifying : SizeOf(c) <= SizeOf(Chosen))
        /\ Qualifying = {} => Chosen = Ranking[1]
        /\ selected.format # "m3u8" => selected.url = Chosen.url

C25_Witness ==
    /\ Selecting
    /\ Len(Ranking) > ProbeLimit
    /\ Qualifying = {}
    /\ \E i \in (ProbeLimit + 1)..Len(Ranking) : SizeOf(Ranking[i]) >= SizeFloor
    /\ selected.url = Ranking[1].url

C25_LargestWitness ==
    /\ Selecting
    /\ Len(Ranking) > ProbeLimit
    /\ SizeOf(Ranking[1]) < SizeFloor
    /\ Qualifying # {}
    /\ selected.url = Chosen.url
    /\ Chosen # Ranking[1]

\* C26: a content-length that is unknown (the probe failed, or the header is
\* missing or no number) never keeps the pick on its candidate when one of
\* the six top-ranked has a known content-length of at least 102400, never
\* makes selectBestVideoUrl return a playlist in place of the pick, and a
\* lone progressive candidate of unknown size is returned.
C26_UnknownIsNotZero ==
    (Selecting /\ Len(Pool) > 0) =>
        /\ Qualifying # {} => SizeOf(Chosen) # NoNumber
        /\ ReprobedSize = NoNumber =>
              (selected.url = Chosen.url /\ selected.format = Chosen.format)
        /\ (Len(Pool) = 1 /\ SizeOf(Pool[1]) = NoNumber) =>
              (selected.url = Pool[1].url /\ selected.format # "m3u8")

C26_Witness ==
    /\ Selecting
    /\ Playlists # {}
    /\ SizeOf(Ranking[1]) = NoNumber
    /\ Qualifying # {}
    /\ Chosen # Ranking[1]
    /\ ReprobedSize = NoNumber
    /\ selected.url = Chosen.url

C26_LoneWitness ==
    /\ Selecting
    /\ Playlists # {}
    /\ Len(Pool) = 1
    /\ SizeOf(Pool[1]) = NoNumber
    /\ selected.url = Pool[1].url

\* a url whose file extension is that of a raw transport segment
SegmentUrl(u) == \E i \in 1..Len(u) : LowerTok(u[i]) \in {".m4s", ".m4a", ".ts"}

\* C27: no segment file (.m4s, .m4a, .ts) is a member of the progressive
\* pool, and a segment file is returned only when every parsed candidate is
\* a segment file.
C27_SegmentNeverFinal ==
    Selecting =>
        /\ \A c \in Range(Pool) : ~SegmentUrl(c.url)
        /\ (selected # NullVideo /\ SegmentUrl(selected.url)) =>
              \A c \in Range(Parsed) : SegmentUrl(c.url)

\* the urls seen on the three channels before the selection
Observed == Range(cands) \cup Range(selCall.side)

\* C22: the parsed candidates of a selection hold no fragment-stripped url
\* twice, hold the fragment-stripped form of every url observed on a
\* channel, and a url that is returned is the url of one of them.
C22_UniqueByStrippedUrl ==
    Selecting =>
        /\ \A i \in 1..Len(Parsed) : \A j \in 1..Len(Parsed) :
              Parsed[i].url = Parsed[j].url => i = j
        /\ \A u \in Observed : \E c \in Range(Parsed) : c.url = StripFragment(u)
        /\ selected # NullVideo => \E c \in Range(Parsed) : c.url = selected.url

----------------------------------------------------------------------------
(* Properties of extract *)

Returned == pc = "done"
Escaped == pc = "threw"
Entered(step) == \E i \in 1..Len(phases) : phases[i] = step
InOrder(a, b) == \E i \in 1..Len(phases) : \E j \in (i + 1)..Len(phases) :
                    phases[i] = a /\ phases[j] = b
ProtectedPage == pageHtml # <<>> /\ isPrivateTweet(pageHtml)
WallPage == pageHtml # <<>> /\ ~isPrivateTweet(pageHtml) /\ hasLoginWall(pageHtml)
Collected == \E i \in 1..Len(cands) : getVideoFormat(cands[i]) \in {"mp4", "m3u8"}
Classifications == {"login_wall", "protected_account", "no_video_found", "invalid_url",
                    "parse_error", "extraction_error", "unknown"}

\* C5: once the rendered HTML matches a protected-account phrase, playback
\* triggering, candidate waiting and selection are never entered, whatever the
\* listener has collected, and extract returns videoUrl null with
\* classification protected_account.
C5_ProtectedEndsAttempt ==
    ProtectedPage =>
        /\ ~Entered("playback") /\ ~Entered("wait") /\ ~Entered("select")
        /\ selected = PendingVideo
        /\ pc \in {"protected", "finally", "done"}
        /\ Returned => (result.videoUrl = NullVideo
                        /\ result.errorClassification = "protected_account")

C5_Witness ==
    /\ ProtectedPage
    /\ Returned
    /\ Collected
    /\ result.errorClassification = "protected_account"

C7_LoginWallContinues ==
    (Returned /\ WallPage) =>
        /\ InOrder("playback", "wait") /\ InOrder("wait", "select")
        /\ selected # PendingVideo
        /\ selected # NullVideo =>
              /\ result.videoUrl = selected
              /\ result.error = Undefined
              /\ result.errorClassification = Undefined

C7_Witness ==
    /\ Returned
    /\ WallPage
    /\ result.videoUrl.format = "mp4"
    /\ result.errorClassification = Undefined

\* C8: a url that fails the shape check is answered with invalid_url, a url
\* that passes it but has no parseable author and numeric id is answered with
\* parse_error, and in both cases nothing is launched.
C8_ValidationClassified ==
    pc # "idle" =>
        /\ ~isValidTwitterUrl(input) =>
              /\ Returned /\ result.errorClassification = "invalid_url"
              /\ launched = {}
        /\ (isValidTwitterUrl(input) /\ parseTweetUrl(input) # "info") =>
              /\ Returned /\ result.errorClassification = "parse_error"
              /\ launched = {}

\* C9: no failure of a step after validation escapes extract as an exception;
\* a run in which such a step failed returns videoUrl null and one
\* classification of the fixed set, extraction_error for a thrown error.
C9_NoRawException ==
    (faults \ {"parse"} # {}) =>
        /\ ~Escaped
        /\ Returned => /\ result.videoUrl = NullVideo
                       /\ result.errorClassification \in Classifications
                       /\ result.errorClassification = "extraction_error"

\* C10: when extract has returned, every browser and context it launched has
\* had close() requested exactly once, and nothing else has.
C10_ClosedOnce ==
    Returned =>
        /\ closeCalls.context = (IF "context" \in launched THEN 1 ELSE 0)
        /\ closeCalls.browser = (IF "browser" \in launched THEN 1 ELSE 0)

Outcome(r) == <<r.videoUrl, r.error, r.errorClassification>>

\* C11: the videoUrl, error message and classification extract returns after
\* the browser phase are fixed by what failed (a thrown step, a protected
\* page, a null selection with or without login wall) or by the selected
\* candidate, whether a debug directory is configured or not and whether
\* mkdir, the HTML write and the screenshot succeed or not.
C11_ArtifactsNeverChangeOutcome ==
    (Returned /\ Entered("launch")) =>
        Outcome(result) =
            IF faults # {} THEN <<NullVideo, MsgThrown, "extraction_error">>
            ELSE IF ProtectedPage THEN <<NullVideo, MsgProtected, "protected_account">>
            ELSE IF selected # NullVideo THEN <<selected, Undefined, Undefined>>
            ELSE IF hasLoginWall(pageHtml) THEN <<NullVideo, MsgLoginWall, "login_wall">>
            ELSE <<NullVideo, MsgNoVideo, "no_video_found">>

C11_Witness ==
    /\ Returned
    /\ debugDir
    /\ ProtectedPage
    /\ ~result.debugInfo.defined
    /\ result.errorClassification = "protected_account"

\* the steps of extract in the order of its text; "threw" is the other end
PhaseOrder ==
    <<"import", "launch", "newContext", "newPage", "goto", "settle", "content",
      "protected", "playback", "wait", "select", "catch", "finally", "done">>
RankOf(step) ==
    IF step = "threw" THEN Len(PhaseOrder)
    ELSE CHOOSE i \in 1..Len(PhaseOrder) : PhaseOrder[i] = step
EnteredAfter(a, steps) ==
    \E i \in 1..Len(phases) : \E j \in (i + 1)..Len(phases) :
        phases[i] = a /\ phases[j] \in steps

\* C21: the steps extract enters are strictly increasing in the order
\* validate, navigate, wall check, playback, wait, select, end: none is
\* entered twice and none is entered after a later one; an invalid or
\* unparseable url enters nothing but the end, a protected page enters none
\* of playback, wait and select, and after the catch block only the
\* finally block and the end are entered.
C21_LinearPhases ==
    /\ \A i \in 1..Len(phases) : \A j \in (i + 1)..Len(phases) :
          RankOf(phases[i]) < RankOf(phases[j])
    /\ (pc # "idle" /\ (~isValidTwitterUrl(input) \/ parseTweetUrl(input) # "info"))
          => Len(phases) = 1 /\ phases[1] \in {"done", "threw"}
    /\ Entered("protected") =>
          ~Entered("playback") /\ ~Entered("wait") /\ ~Entered("select")
    /\ ~EnteredAfter("catch", Range(PhaseOrder) \ {"finally", "done"})
    /\ Entered("threw") => phases[Len(phases)] = "threw"

C21_Witness ==
    /\ Returned
    /\ phases = <<"import", "launch", "newContext", "newPage", "goto", "settle",
                  "content", "playback", "wait", "select", "finally", "done">>
    /\ result.errorClassification = Undefined

SuccessShape(r) ==
    /\ r.videoUrl \notin {NullVideo, PendingVideo}
    /\ r.error = Undefined
    /\ r.errorClassification = Undefined
FailureShape(r) ==
    /\ r.videoUrl = NullVideo
    /\ r.error # Undefined
    /\ r.errorClassification \in Classifications

\* C29: a result extract returns has a video url and neither error nor
\* classification, or it has a null video url, an error message and one of
\* the classifications; never a video url with an error, never a failure
\* without classification.
C29_TwoShapes ==
    Returned =>
        /\ SuccessShape(result) \/ FailureShape(result)
        /\ ~(SuccessShape(result) /\ FailureShape(result))
        /\ result.videoUrl # NullVideo =>
              (result.error = Undefined /\ result.errorClassification = Undefined)
        /\ result.error # Undefined => result.errorClassification # Undefined

C29_Witness ==
    /\ Returned
    /\ FailureShape(result)
    /\ result.errorClassification = "extraction_error"
    /\ result.debugInfo.defined
    /\ Collected

C29_SuccessWitness ==
    /\ Returned
    /\ SuccessShape(result)
    /\ result.videoUrl.format = "m3u8"

BestEffortSteps == {"evaluate", "click", "performance", "dom"}

\* C23: a best-effort step that throws is never a fault of the run and never
\* sends it to the catch block: the run goes on to the wait and to the
\* selection, a side channel that threw contributes no url, the result is
\* the one the selector gives for the collected urls, and at most one click
\* has succeeded.
C23_BestEffortSwallowed ==
    /\ clicks <= 1
    /\ faults \cap BestEffortSteps = {}
    /\ swallowed # {} => Entered("wait")
    /\ (swallowed # {} /\ faults = {}) => ~Entered("catch")
    /\ {"performance", "dom"} \subseteq swallowed => selCall.side = <<>>
    /\ (Returned /\ swallowed # {}) =>
          /\ Entered("select")
          /\ \E reprobeFails \in BOOLEAN :
                selected = selectBestVideoUrl(cands, selCall.side, <<>>, contentLength,
                                              reprobeFails)
          /\ Outcome(result) =
                IF selected # NullVideo THEN <<selected, Undefined, Undefined>>
                ELSE IF hasLoginWall(pageHtml) THEN <<NullVideo, MsgLoginWall, "login_wall">>
                ELSE <<NullVideo, MsgNoVideo, "no_video_found">>

C23_Witness ==
    /\ Returned
    /\ swallowed = BestEffortSteps
    /\ clicks = 1
    /\ result.videoUrl.format = "mp4"
    /\ result.error = Undefined

\* a collected url whose format is one of the four that end the wait
HasAccepted ==
    \E i \in 1..Len(cands) : getVideoFormat(cands[i]) \in {"mp4", "m3u8", "webm", "gif"}

----------------------------------------------------------------------------
(* Properties of downloadHlsWithFfmpeg *)

Spawned == ffmpeg # "none"
FfRejections == {"stuck", "timed out", "failed", "failed to start"}

\* C12: while the operation is pending and the subprocess runs, the
\* subprocess has never gone longer than the 30 s window (plus the two polling
\* intervals it takes to notice) without adding bytes to the output file,
\* whether the file is absent, empty or partly written; and a run rejected as
\* stuck has sent SIGKILL.
C12_StuckIsDetected ==
    /\ (promise = "pending" /\ ffmpeg = "running")
          => idleMs <= NoProgressTimeoutMs + 2 * PollIntervalMs
    /\ promise = "stuck" => (kills >= 1 /\ ffmpeg # "running")

\* C13: the operation is never pending after the absolute timeout (the
\* caller's, or 120 s) has elapsed, and the step that rejects it as timed out
\* sends SIGKILL to the subprocess, whatever the no-progress guard saw.
C13_AbsoluteTimeout ==
    /\ [](promise = "pending" => clock <= timeoutMs)
    /\ [][(promise = "pending" /\ promise' = "timed out")
            => (clock >= timeoutMs /\ kills' = kills + 1 /\ ffmpeg' # "running")]_vars
    /\ [][(promise = "pending" /\ ffmpeg = "running" /\ TimeoutDue(clock)
              /\ timers' = {} /\ ffmpeg' = "killed" /\ ~PollDue)
            => promise' = "timed out"]_vars

C13_Witness ==
    /\ promise = "timed out"
    /\ timeout = NoNumber
    /\ clock = DefaultTimeoutMs
    /\ outputFile > 0
    /\ idleMs = 0
    /\ kills = 1

\* C14: the step that spawns the subprocess leaves no file at the output
\* path, and once the subprocess has been spawned the file that was there
\* before the call is gone, also when the conversion fails without writing.
C14_OldFileDeletedBeforeSpawn ==
    /\ [](Spawned => preexisting # "there")
    /\ [][(~Spawned /\ ffmpeg' # "none") => outputFile' = NoNumber]_vars

C14_Witness ==
    /\ promise \in FfRejections
    /\ preexisting = "deleted"
    /\ outputFile = NoNumber

\* the promise has been resolved or rejected
Decided == promise \in {"resolved", "stuck", "timed out", "failed", "failed to start"}
\* the two messages of a rejection by a non-zero exit
ExitMessages ==
    {<<"Failed to download HLS: ", "Error opening input">>,
     <<"Failed to download HLS: ", "ffmpeg exited with code ", "1">>}

\* C30: the outcome of downloadHlsWithFfmpeg is decided once, by the first of
\* the 'close' event, the 'error' event, the stall guard and the absolute
\* timeout, in every order of them: a decided outcome and its message never
\* change again, a run in which a guard called kill is never resolved, no
\* timer is left once the outcome is decided, and a 'close' with exit code 1
\* before any guard has fired rejects with the trimmed stderr or, when that
\* is empty, with "ffmpeg exited with code 1".
C30_DecidedOnce ==
    /\ [][Decided => (promise' = promise /\ detail' = detail)]_vars
    /\ [][(promise = "pending" /\ promise' # "pending")
            => (promise' \in {"resolved", "stuck", "timed out", "failed", "failed to start"}
                /\ timers' = {})]_vars
    /\ [](kills > 0 => promise # "resolved")
    /\ [](Decided => timers = {})
    /\ [][(ffmpeg = "ended 1" /\ ffmpeg' = "exited" /\ ~rejected)
            => (promise' = "failed" /\ detail' \in ExitMessages)]_vars
    /\ [](promise = "failed" => (detail \in ExitMessages /\ kills = 0))

\* the timeout fired after the subprocess had ended with code 0 and before
\* its 'close' was delivered: the 'close' handler will call resolve on a
\* rejected promise
C30_Witness ==
    /\ promise = "timed out"
    /\ ffmpeg = "ended 0"
    /\ kills = 1
    /\ timers = {}

\* a non-zero exit with nothing but white space on stderr was rejected with
\* the synthesized message
C30_ExitCodeWitness ==
    /\ promise = "failed"
    /\ ffmpeg = "exited"
    /\ detail = <<"Failed to download HLS: ", "ffmpeg exited with code ", "1">>

----------------------------------------------------------------------------
(* Properties of hasLoginWall *)

CallToActions == {<<"Sign", "in">>, <<"Log", "in">>}
HasIndicator(text) ==
    \E indicator \in loginIndicators : IncludesPhrase(LowerHtml(text), indicator)
HasCallToAction(text) == \E cta \in CallToActions : IncludesPhrase(text, cta)
\* a text that is one call-to-action string, alone or next to an unrelated word
OnlyCallToAction(text) ==
    \E cta \in CallToActions : text \in {cta, <<"hello">> \o cta, cta \o <<"hello">>}

\* C15: hasLoginWall answers true only for a text with both an indicator
\* phrase and a call-to-action string, false for a text with an indicator
\* phrase and no call-to-action, and false for a text that holds nothing but
\* the call-to-action 'Sign in' or 'Log in'.
C15_BothRequired ==
    wall # Undefined =>
        /\ wall = "true" => (HasIndicator(wallHtml) /\ HasCallToAction(wallHtml))
        /\ (HasIndicator(wallHtml) /\ ~HasCallToAction(wallHtml)) => wall = "false"
        /\ OnlyCallToAction(wallHtml) => wall = "false"

\* C16: a call on a text that differs from the previous one only in letter
\* case returns what the previous call returned.
C16_CaseInsensitive ==
    [][(wall # Undefined /\ LowerHtml(wallHtml') = LowerHtml(wallHtml)) => wall' = wall]_vars

----------------------------------------------------------------------------
(* Properties of getVideoFormat *)

\* the extension token the path of a url ends in, Undefined if none
FinalExtension(u) ==
    IF Len(u) >= 3 /\ u[3] \in DOMAIN ExtensionTags THEN u[3] ELSE Undefined

\* C17: for a url whose path ends in a media extension, in either letter
\* case and with or without query string or fragment, getVideoFormat returns
\* the tag of that extension; for a url without extension and without the
\* tweet_video marker it returns 'unknown'.
C17_TagOfFinalExtension ==
    fmt # Undefined =>
        IF FinalExtension(fmtUrl) # Undefined
        THEN fmt = ExtensionTags[FinalExtension(fmtUrl)]
        ELSE fmt = "unknown"

----------------------------------------------------------------------------
(* Properties of the CLI *)

\* C19: a step of main calls downloadAuthenticated exactly when it handles a
\* failed direct download whose error is HTTP 401 or 403 and --profile was
\* given; the call is made at most once; a failed direct download that is
\* not retried ends the process with a non-zero exit code.
C19_AuthenticatedRetry ==
    /\ [](authCalls <= 1)
    /\ [][(authCalls' # authCalls) <=>
            (/\ cliPc = "caught"
             /\ cliPc' # "caught"
             /\ cliArgs.profile
             /\ \E code \in {"401", "403"} : cliMessage = MessageOf(code))]_vars
    /\ []((cliPc = "exited" /\ cliMessage # <<>> /\ authCalls = 0) => exitCode = 1)

C19_Witness ==
    /\ cliPc = "exited"
    /\ authCalls = 1
    /\ cliArgs.profile
    /\ cliMessage = MessageOf("403")
    /\ exitCode = 0

----------------------------------------------------------------------------
(* Properties of the install script *)

\* verify_checksum compared the digests and they differ
Mismatch == ACTUAL_SHA # "" /\ EXPECTED_SHA # <<ACTUAL_SHA>>

RanAny(steps) == \E i \in 1..Len(ran) : ran[i] \in steps

\* C20: when the digest of the downloaded binary differs from the listed
\* one, the script ends with code 4, nothing is left at ~/.local/bin/x-dl,
\* and verify_binary, update_path and prompt_chromium have not run.
C20_MismatchRemovesBinary ==
    (Mismatch /\ instPc = "exited") =>
        /\ instExit = 4
        /\ xdl = "nothing"
        /\ ~RanAny({"verify_binary", "update_path", "prompt_chromium"})

----------------------------------------------------------------------------
(* Properties of downloadVideo *)

\* C28: when downloadVideo resolves after receiving bytes and onProgress was
\* supplied, the last call of onProgress reports the count of all bytes
\* received, with or without a declared content-length; when it
\* rejects, nothing has been written to the destination.
C28_FinalProgressUpdate ==
    /\ (dlPc = "resolved" /\ onProgress /\ downloaded > 0) =>
          (updates # <<>> /\ updates[Len(updates)][1] = downloaded)
    /\ dlPc = "resolved" => destination = downloaded
    /\ dlPc = "rejected" => destination = NoNumber

====
